---- MODULE Spec2Model ----
(***************************************************************************)
(* PostgresQueryBuilder (src/src/pyon/datastore/postgresql/pg_query.py):   *)
(* the compiler of a datastore query expression into a parameterized SQL   *)
(* statement.                                                              *)
(*                                                                         *)
(* Python values are tagged records [k, v]: a str is the sequence of its   *)
(* characters, a list or tuple the sequence of its elements.  SQL text is  *)
(* a sequence of pieces (TLA+ strings); Render concatenates the pieces to  *)
(* the string the code builds.  A dict is a function from its keys.        *)
(***************************************************************************)
EXTENDS Integers, Sequences, FiniteSets, TLC

VARIABLES
    phase,          \* "none": no instance; "built": __init__ returned; "failed": __init__ raised
    query,          \* self.query, the QuerySpec handed to __init__
    basetable,      \* self.basetable
    from_tables,    \* self.from_tables
    table_aliases,  \* self.table_aliases
    cols,           \* self.cols
    where,          \* self.where
    order_by,       \* self.order_by
    group_by,       \* self.group_by
    having,         \* self.having
    valcnt,         \* self._valcnt
    values,         \* self.values
    error,          \* kind of the exception __init__ raised, "" when none
    sql_out,        \* what get_query last returned (<<>> before the first call)
    values_out,     \* what get_values last returned
    returned,       \* the placeholders the direct _value calls returned, oldest first
    assoc,          \* the rows of the association table the compiled statement is run over
    exec,           \* the run of the recursive query: "idle", "running", "done"
    working,        \* the rows the last step of the recursive query produced
    ch_res,         \* the rows of ch_res produced so far
    insts           \* two more instances, compiled side by side: [phase, q, bt, cnt, vals, pending, returned]

vars == <<phase, query, basetable, from_tables, table_aliases, cols, where, order_by,
          group_by, having, valcnt, values, error, sql_out, values_out, returned,
          assoc, exec, working, ch_res, insts>>

\* What lies outside the single instance: the database and the other instances
outside == <<assoc, exec, working, ch_res, insts>>

-----------------------------------------------------------------------------
(* Bounds of the model                                                     *)

MaxBinds == 4       \* direct _value calls on one instance
MaxNodes == 5       \* nodes of an AND/OR/NOT tree
MaxVals == 3        \* values of a membership predicate
MaxDir == 2         \* levels of an associated-with direction string

-----------------------------------------------------------------------------
(* Python values                                                           *)

Str(s) == [k |-> "str", v |-> s]
IntV(n) == [k |-> "int", v |-> n]
ListV(l) == [k |-> "list", v |-> l]
NoneV == [k |-> "none", v |-> <<>>]
BoolV(b) == [k |-> "bool", v |-> b]

IsStr(x) == x.k = "str"
IsList(x) == x.k = "list"

\* bool(x)
Truthy(x) ==
    CASE x.k = "none" -> FALSE
      [] x.k = "int" -> x.v # 0
      [] x.k = "bool" -> x.v
      [] OTHER -> x.v # <<>>

RECURSIVE Join(_)
Join(s) == IF s = <<>> THEN "" ELSE Head(s) \o Join(Tail(s))

\* The SQL string a sequence of pieces stands for.
Render(pieces) == Join(pieces)

\* A Python str placed into SQL text by string formatting.
Inline(chars) == Join(chars)

Digit(d) == <<"0", "1", "2", "3", "4", "5", "6", "7", "8", "9">>[d + 1]

RECURSIVE NatChars(_)
NatChars(n) == IF n < 10 THEN <<Digit(n)>> ELSE NatChars(n \div 10) \o <<Digit(n % 10)>>

IntChars(n) == IF n < 0 THEN <<"-">> \o NatChars(0 - n) ELSE NatChars(n)

\* repr(x) of a str without quote or escape characters, an int, None
PyReprScalar(x) ==
    CASE x.k = "str" -> <<"'">> \o x.v \o <<"'">>
      [] x.k = "int" -> IntChars(x.v)
      [] OTHER -> <<"N", "o", "n", "e">>

RECURSIVE ReprItems(_)
ReprItems(l) ==
    IF l = <<>> THEN <<>>
    ELSE PyReprScalar(Head(l)) \o (IF Len(l) > 1 THEN <<",", " ">> ELSE <<>>) \o ReprItems(Tail(l))

\* str(x), the characters
PyStr(x) ==
    CASE x.k = "str" -> x.v
      [] x.k = "int" -> IntChars(x.v)
      [] x.k = "none" -> <<"N", "o", "n", "e">>
      [] OTHER -> <<"[">> \o ReprItems(x.v) \o <<"]">>

StartsWith(s, p) == Len(s) >= Len(p) /\ SubSeq(s, 1, Len(p)) = p
EndsWith(s, p) == Len(s) >= Len(p) /\ SubSeq(s, Len(s) - Len(p) + 1, Len(s)) = p

UpperCase == <<"A", "B", "C", "D", "E", "F", "G", "H", "I", "J", "K", "L", "M",
               "N", "O", "P", "Q", "R", "S", "T", "U", "V", "W", "X", "Y", "Z">>
LowerCase == <<"a", "b", "c", "d", "e", "f", "g", "h", "i", "j", "k", "l", "m",
               "n", "o", "p", "q", "r", "s", "t", "u", "v", "w", "x", "y", "z">>

\* str.lower()
LowerChar(c) ==
    IF \E i \in 1..Len(UpperCase) : UpperCase[i] = c
    THEN LowerCase[CHOOSE i \in 1..Len(UpperCase) : UpperCase[i] = c]
    ELSE c
Lower(s) == [i \in 1..Len(s) |-> LowerChar(s[i])]

\* str.find(pat): the first index (from 0) at which pat occurs, -1 when none
Find(s, pat) ==
    LET hits == {i \in 0..(Len(s) - Len(pat)) : SubSeq(s, i + 1, i + Len(pat)) = pat}
    IN  IF hits = {} THEN -1 ELSE CHOOSE i \in hits : \A j \in hits : i <= j

\* dict.get(key, default)
Get(d, key, default) == IF key \in DOMAIN d THEN d[key] ELSE default

-----------------------------------------------------------------------------
(* DQ: the tags of the query expression language.  A tag is the string     *)
(* pfx + name + sfx.                                                       *)

Tag(pfx, name, sfx) == [pfx |-> pfx, name |-> name, sfx |-> sfx]

OP_PREFIX == "op:"
GOP_PREFIX == "geo:"
ROP_PREFIX == "rop:"
XOP_PREFIX == "xop:"
EXP_PREFIX == "exp:"
ASSOP_PREFIX == "assop:"

OP_EQ == Tag(OP_PREFIX, "eq", "")
OP_NEQ == Tag(OP_PREFIX, "neq", "")
OP_LT == Tag(OP_PREFIX, "lt", "")
OP_LTE == Tag(OP_PREFIX, "lte", "")
OP_GT == Tag(OP_PREFIX, "gt", "")
OP_GTE == Tag(OP_PREFIX, "gte", "")
OP_LIKE == Tag(OP_PREFIX, "like", "")
OP_ILIKE == Tag(OP_PREFIX, "ilike", "")
OP_FUZZY == Tag(OP_PREFIX, "fuzzy", "")
OP_REGEX == Tag(OP_PREFIX, "regex", "")
OP_IREGEX == Tag(OP_PREFIX, "iregex", "")
GOP_OVERLAPS_BBOX == Tag(GOP_PREFIX, "overlaps", "")
GOP_CONTAINS_BBOX == Tag(GOP_PREFIX, "contains", "")
GOP_WITHIN_BBOX == Tag(GOP_PREFIX, "within", "")
GOP_OVERLAPS_GEOM == Tag(GOP_PREFIX, "overlaps", "_geom")
GOP_CROSSES_GEOM == Tag(GOP_PREFIX, "crosses", "_geom")
GOP_CONTAINS_GEOM == Tag(GOP_PREFIX, "contains", "_geom")
GOP_TOUCHES_GEOM == Tag(GOP_PREFIX, "touches", "_geom")
GOP_WITHIN_GEOM == Tag(GOP_PREFIX, "within", "_geom")
GOP_DISTANCE == Tag(GOP_PREFIX, "distance", "")
ROP_OVERLAPS_RANGE == Tag(ROP_PREFIX, "overlaps", "")
ROP_CONTAINS_RANGE == Tag(ROP_PREFIX, "contains", "")
ROP_WITHIN_RANGE == Tag(ROP_PREFIX, "within", "")
XOP_IN == Tag(XOP_PREFIX, "in", "")
XOP_BETWEEN == Tag(XOP_PREFIX, "between", "")
XOP_ATTLIKE == Tag(XOP_PREFIX, "attlike", "")
XOP_ATTILIKE == Tag(XOP_PREFIX, "attilike", "")
XOP_ALLMATCH == Tag(XOP_PREFIX, "allmatch", "")
XOP_KEYWORD == Tag(XOP_PREFIX, "keyword", "")
XOP_ALTID == Tag(XOP_PREFIX, "altid", "")
EXP_AND == Tag(EXP_PREFIX, "and", "")
EXP_OR == Tag(EXP_PREFIX, "or", "")
EXP_NOT == Tag(EXP_PREFIX, "not", "")
ASSOP_ASSOCIATED == Tag(ASSOP_PREFIX, "associated", "")
ASSOP_DESCEND_O == Tag(ASSOP_PREFIX, "descend_o", "")
ASSOP_DESCEND_S == Tag(ASSOP_PREFIX, "descend_s", "")
TXT_CONTAINS == "contains"
TXT_ICONTAINS == "icontains"

\* op.startswith(prefix), op.endswith('_geom')
TagStartsWith(op, pfx) == op.pfx = pfx
TagEndsWithGeom(op) == op.sfx = "_geom"

\* DataStore.DS_PROFILE
DS_PROFILE_RESOURCES == "RESOURCES"
DS_PROFILE_EVENTS == "EVENTS"

-----------------------------------------------------------------------------
(* The operator catalog                                                    *)

OP_STR ==
    [op \in {OP_EQ, OP_NEQ, OP_LT, OP_LTE, OP_GT, OP_GTE, OP_LIKE, OP_ILIKE, OP_FUZZY, OP_REGEX,
             OP_IREGEX, GOP_OVERLAPS_BBOX, GOP_CONTAINS_BBOX, GOP_WITHIN_BBOX, GOP_OVERLAPS_GEOM,
             GOP_CROSSES_GEOM, GOP_CONTAINS_GEOM, GOP_TOUCHES_GEOM, GOP_WITHIN_GEOM,
             ROP_OVERLAPS_RANGE, ROP_CONTAINS_RANGE, ROP_WITHIN_RANGE, XOP_ATTLIKE, XOP_ATTILIKE} |->
        CASE op = OP_EQ -> "="
          [] op = OP_NEQ -> "<>"
          [] op = OP_LT -> "<"
          [] op = OP_LTE -> "<="
          [] op = OP_GT -> ">"
          [] op = OP_GTE -> ">="
          [] op = OP_LIKE -> " LIKE "
          [] op = OP_ILIKE -> " ILIKE "
          [] op = OP_FUZZY -> " %% "
          [] op = OP_REGEX -> " ~ "
          [] op = OP_IREGEX -> " ~* "
          [] op = GOP_OVERLAPS_BBOX -> "&&"
          [] op = GOP_CONTAINS_BBOX -> "~"
          [] op = GOP_WITHIN_BBOX -> "@"
          [] op = GOP_OVERLAPS_GEOM -> "ST_Intersects("
          [] op = GOP_CROSSES_GEOM -> "ST_Crosses("
          [] op = GOP_CONTAINS_GEOM -> "ST_Contains("
          [] op = GOP_TOUCHES_GEOM -> "ST_Touches("
          [] op = GOP_WITHIN_GEOM -> "ST_Within("
          [] op = ROP_OVERLAPS_RANGE -> "&&"
          [] op = ROP_CONTAINS_RANGE -> "@>"
          [] op = ROP_WITHIN_RANGE -> "<@"
          [] op = XOP_ATTLIKE -> "LIKE"
          [] OTHER -> "ILIKE"]

-----------------------------------------------------------------------------
(* Python str constants                                                    *)

S_id == Str(<<"i", "d">>)
S_s == Str(<<"s">>)
S_st == Str(<<"s", "t">>)
S_p == Str(<<"p">>)
S_o == Str(<<"o">>)
S_ot == Str(<<"o", "t">>)
S_type_ == Str(<<"t", "y", "p", "e", "_">>)
S_name == Str(<<"n", "a", "m", "e">>)
S_lcstate == Str(<<"l", "c", "s", "t", "a", "t", "e">>)
S_availability == Str(<<"a", "v", "a", "i", "l", "a", "b", "i", "l", "i", "t", "y">>)
S_ts_created == Str(<<"t", "s", "_", "c", "r", "e", "a", "t", "e", "d">>)
S_ts_updated == Str(<<"t", "s", "_", "u", "p", "d", "a", "t", "e", "d">>)
S_origin == Str(<<"o", "r", "i", "g", "i", "n">>)
S_origin_type == Str(<<"o", "r", "i", "g", "i", "n", "_", "t", "y", "p", "e">>)
S_sub_type == Str(<<"s", "u", "b", "_", "t", "y", "p", "e">>)
S_actor_id == Str(<<"a", "c", "t", "o", "r", "_", "i", "d">>)
S_assoc == Str(<<"a", "s", "s", "o", "c">>)
S__assoc == Str(<<"_", "a", "s", "s", "o", "c">>)
S_empty == Str(<<>>)

-----------------------------------------------------------------------------
(* Results of the compiling methods: the SQL pieces returned, the binder   *)
(* state (self._valcnt, self.values) after the call, and the kind of the   *)
(* exception raised ("" when the call returned).                           *)

Ok(sql, st) == [sql |-> sql, cnt |-> st.cnt, vals |-> st.vals, err |-> ""]
Raise(kind) == [sql |-> <<>>, cnt |-> 0, vals |-> <<>>, err |-> kind]

\* d[key] = val
Put(d, key, val) == [x \in (DOMAIN d) \cup {key} |-> IF x = key THEN val ELSE d[x]]

\* "v" + str(n), and the placeholder "%(" + valname + ")s"
ValName(n) == "v" \o ToString(n)
Placeholder(valname) == "%(" \o valname \o ")s"

\* A plausible defect of the binder: the counter is not advanced.
StoreValueNoIncrement(st, value) ==
    [sql |-> <<Placeholder(ValName(st.cnt + 1))>>, cnt |-> st.cnt,
     vals |-> Put(st.vals, ValName(st.cnt + 1), value), err |-> ""]

\* A plausible defect of the binder: the placeholder is returned, the value
\* is not stored.
StoreValueUnbound(st, value) ==
    [sql |-> <<Placeholder(ValName(st.cnt + 1))>>, cnt |-> st.cnt + 1, vals |-> st.vals, err |-> ""]

\* PostgresQueryBuilder._value: the else branch, one value stored
StoreValue(st, value) ==
    [sql |-> <<Placeholder(ValName(st.cnt + 1))>>, cnt |-> st.cnt + 1,
     vals |-> Put(st.vals, ValName(st.cnt + 1), value), err |-> ""]

\* A plausible defect of the joins: the separator is left out.
JoinedNoSep(r1, sep, more, r2) == Ok(r1.sql \o r2.sql, r2)

\* r1 then r2, the text of both joined by sep when more is set
Joined(r1, sep, more, r2) == Ok(r1.sql \o (IF more THEN <<sep>> ELSE <<>>) \o r2.sql, r2)

RECURSIVE _value(_, _, _)
RECURSIVE ValueJoin(_, _)

\* A plausible defect of the binder: flatten_list is not looked at.
ValueAlwaysFlatten(st, value, flatten_list) ==
    IF Truthy(value) /\ IsList(value)
    THEN ValueJoin(st, value.v)
    ELSE StoreValue(st, value)

\* PostgresQueryBuilder._value(value, flatten_list)
_value(st, value, flatten_list) ==
    IF Truthy(value) /\ IsList(value) /\ flatten_list
    THEN ValueJoin(st, value.v)
    ELSE StoreValue(st, value)

\* ",".join(self._value(val) for val in value)
ValueJoin(st, l) ==
    IF l = <<>> THEN Ok(<<>>, st)
    ELSE LET Rest(r1) == Joined(r1, ",", Len(l) > 1, ValueJoin(r1, Tail(l)))
         IN  Rest(_value(st, Head(l), TRUE))

\* Consecutive self._value(v) calls for the values vs, in the order the code
\* makes them: sql[i] is the text the i-th call returned.
RECURSIVE ValueCalls(_, _)
ValueCalls(st, vs) ==
    IF vs = <<>> THEN [sql |-> <<>>, cnt |-> st.cnt, vals |-> st.vals, err |-> ""]
    ELSE LET Cons(r1, r2) == [sql |-> <<r1.sql>> \o r2.sql, cnt |-> r2.cnt, vals |-> r2.vals, err |-> ""]
             Rest(r1) == Cons(r1, ValueCalls(r1, Tail(vs)))
         IN  Rest(_value(st, Head(vs), TRUE))

\* A plausible defect of the substitution: a reference to an absent name is
\* passed through unchanged.
SubParamKeep(query_params, value) ==
    IF DOMAIN query_params = {} \/ ~IsStr(value) THEN value
    ELSE IF Truthy(value) /\ StartsWith(value.v, <<"$", "(">>) /\ EndsWith(value.v, <<")">>)
         THEN Get(query_params, SubSeq(value.v, 3, Len(value.v) - 1), value)
         ELSE value

\* PostgresQueryBuilder._sub_param(value)
_sub_param(query_params, value) ==
    IF DOMAIN query_params = {} \/ ~IsStr(value) THEN value
    ELSE IF Truthy(value) /\ StartsWith(value.v, <<"$", "(">>) /\ EndsWith(value.v, <<")">>)
         THEN Get(query_params, SubSeq(value.v, 3, Len(value.v) - 1), NoneV)
         ELSE value

\* The whitelists of _is_standard_col
AssocCols == {S_id, S_s, S_st, S_p, S_o, S_ot}
ResourceCols == {S_id, S_type_, S_name, S_lcstate, S_availability, S_ts_created, S_ts_updated}
EventCols == {S_id, S_type_, S_origin, S_origin_type, S_sub_type, S_actor_id}

\* A plausible defect of the classifier: no attribute is a standard column.
IsStandardColNever(q, col) ==
    IF Get(q["query_args"], "profile", "") \in {DS_PROFILE_RESOURCES, DS_PROFILE_EVENTS}
    THEN [err |-> "", val |-> FALSE]
    ELSE [err |-> "BadRequest", val |-> FALSE]

\* A plausible defect of the classifier: an unknown profile falls back to the
\* resource whitelist.
IsStandardColDefault(q, col) ==
    IF Get(q["query_args"], "profile", "") = DS_PROFILE_RESOURCES /\ Get(q["query_args"], "ds_sub", S_empty) = S_assoc
    THEN [err |-> "", val |-> col \in AssocCols]
    ELSE IF Get(q["query_args"], "profile", "") = DS_PROFILE_EVENTS
    THEN [err |-> "", val |-> col \in EventCols]
    ELSE [err |-> "", val |-> col \in ResourceCols]

\* A plausible defect of the classifier: the profile is looked at before the
\* sub-table, so that the association whitelist is never in force.
IsStandardColProfileFirst(q, col) ==
    IF Get(q["query_args"], "profile", "") = DS_PROFILE_RESOURCES
    THEN [err |-> "", val |-> col \in ResourceCols]
    ELSE IF Get(q["query_args"], "profile", "") = DS_PROFILE_EVENTS
    THEN [err |-> "", val |-> col \in EventCols]
    ELSE [err |-> "BadRequest", val |-> FALSE]

\* PostgresQueryBuilder._is_standard_col(col): [err, val]
_is_standard_col(q, col) ==
    LET profile == Get(q["query_args"], "profile", "")
        ds_sub == Get(q["query_args"], "ds_sub", S_empty)
    IN  IF profile = DS_PROFILE_RESOURCES /\ ds_sub = S_assoc
        THEN [err |-> "", val |-> col \in AssocCols]
        ELSE IF profile = DS_PROFILE_RESOURCES
        THEN [err |-> "", val |-> col \in ResourceCols]
        ELSE IF profile = DS_PROFILE_EVENTS
        THEN [err |-> "", val |-> col \in EventCols]
        ELSE [err |-> "BadRequest", val |-> FALSE]

\* table_prefix as a piece of SQL text
Pfx(table_prefix) == IF table_prefix = "" THEN <<>> ELSE <<table_prefix>>

\* ",".join(self._value(self._sub_param(val)) for val in vals), and the same
\* over str(self._sub_param(val)) when as_str
RECURSIVE BindEach(_, _, _, _)
BindEach(self, st, vals, as_str) ==
    IF vals = <<>> THEN Ok(<<>>, st)
    ELSE LET Rest(r1) == Joined(r1, ",", Len(vals) > 1, BindEach(self, r1, Tail(vals), as_str))
             Bound(v0) == Rest(_value(st, IF as_str THEN Str(PyStr(v0)) ELSE v0, TRUE))
         IN  Bound(_sub_param(self.query_params, Head(vals)))

-----------------------------------------------------------------------------
(* _build_where: the leaf predicates.  self is [query, basetable,          *)
(* query_params]; st is the binder state on entry; tp is table_prefix.     *)

\* A query expression (op, args); None when there is none.
Expr(op, args) == [op |-> op, args |-> args]

\* op.startswith(DQ.OP_PREFIX): comparison
WhereCompare(self, st, op, args, tp) ==
    IF Len(args) # 2 THEN Raise("ValueError")
    ELSE
    LET Std(r) == Ok(Pfx(tp) \o <<Inline(PyStr(args[1])), OP_STR[op]>> \o r.sql, r)
        Doc(r) == Ok(<<"json_string(">> \o Pfx(tp) \o <<"doc,">> \o r.sql[1] \o <<")", OP_STR[op]>> \o r.sql[2], r)
        Route(std) ==
            IF std.err # "" THEN Raise(std.err)
            ELSE IF op \notin DOMAIN OP_STR THEN Raise("KeyError")
            ELSE IF std.val
            THEN Std(_value(st, _sub_param(self.query_params, args[2]), TRUE))
            ELSE Doc(ValueCalls(st, <<args[1], Str(PyStr(_sub_param(self.query_params, args[2])))>>))
    IN  Route(_is_standard_col(self.query, args[1]))

\* DQ.XOP_IN
WhereIn(self, st, args, tp) ==
    IF Len(args) < 1 THEN Raise("IndexError")
    ELSE
    LET Std(r) == IF ~IsStr(args[1]) THEN Raise("TypeError")
                  ELSE Ok(Pfx(tp) \o <<Inline(args[1].v), " IN (">> \o r.sql \o <<")">>, r)
        Doc(r1, r2) == Ok(<<"json_string(">> \o Pfx(tp) \o <<"doc,">> \o r2.sql \o <<") IN (">> \o r1.sql \o <<")">>, r2)
        DocValues(r1) == Doc(r1, _value(r1, args[1], TRUE))
        Route(std) ==
            IF std.err # "" THEN Raise(std.err)
            ELSE IF std.val
            THEN Std(BindEach(self, st, Tail(args), FALSE))
            ELSE DocValues(BindEach(self, st, Tail(args), TRUE))
    IN  Route(_is_standard_col(self.query, args[1]))

\* DQ.XOP_BETWEEN
WhereBetween(self, st, args, tp) ==
    IF Len(args) # 3 THEN Raise("ValueError")
    ELSE
    LET Std(r) == Ok(Pfx(tp) \o <<Inline(PyStr(args[1])), " BETWEEN ">> \o r.sql[1] \o <<" AND ">> \o r.sql[2], r)
        Doc(r) == Ok(<<"json_string(">> \o Pfx(tp) \o <<"doc,">> \o r.sql[1] \o <<") BETWEEN ">>
                     \o r.sql[2] \o <<" AND ">> \o r.sql[3], r)
        Bounds(value1, value2, std) ==
            IF std.err # "" THEN Raise(std.err)
            ELSE IF std.val
            THEN Std(ValueCalls(st, <<value1, value2>>))
            ELSE Doc(ValueCalls(st, <<args[1], value1, value2>>))
    IN  Bounds(_sub_param(self.query_params, args[2]), _sub_param(self.query_params, args[3]),
               _is_standard_col(self.query, args[1]))

\* DQ.XOP_ATTLIKE, DQ.XOP_ATTILIKE
WhereAttLike(self, st, op, args, tp) ==
    IF Len(args) # 2 THEN Raise("ValueError")
    ELSE
    LET Doc(r) == Ok(<<"json_string(">> \o Pfx(tp) \o <<"doc,">> \o r.sql[1] \o <<") ", OP_STR[op], " ">> \o r.sql[2], r)
    IN  Doc(ValueCalls(st, <<args[1], _sub_param(self.query_params, args[2])>>))

\* DQ.XOP_ALLMATCH
WhereAllMatch(self, st, args, tp) ==
    IF Len(args) # 2 THEN Raise("ValueError")
    ELSE
    LET Match(r) == IF args[2] = TXT_CONTAINS
                    THEN Ok(<<"json_allattr(">> \o Pfx(tp) \o <<"doc) LIKE ">> \o r.sql, r)
                    ELSE Ok(<<"json_allattr(">> \o Pfx(tp) \o <<"doc) ILIKE ">> \o r.sql, r)
    IN  Match(_value(st, Str(<<"%">> \o PyStr(_sub_param(self.query_params, args[1])) \o <<"%">>), TRUE))

\* DQ.XOP_KEYWORD
WhereKeyword(self, st, args, tp) ==
    IF Len(args) < 1 THEN Raise("IndexError")
    ELSE
    LET Kw(r) == Ok(r.sql \o <<" <@ json_keywords(">> \o Pfx(tp) \o <<"doc)">>, r)
    IN  Kw(_value(st, IF IsList(args[1]) THEN args[1] ELSE ListV(<<args[1]>>), FALSE))

\* DQ.XOP_ALTID
WhereAltId(self, st, args, tp) ==
    IF Len(args) # 2 THEN Raise("ValueError")
    ELSE
    LET alt_id_ns == args[1]
        alt_id == args[2]
        Clause(r1, r2) ==
            IF ~Truthy(alt_id) /\ ~Truthy(alt_id_ns)
            THEN Ok(<<"json_altids_ns(">> \o Pfx(tp) \o <<"doc) IS NOT null">>, r2)
            ELSE IF Truthy(alt_id) /\ ~Truthy(alt_id_ns)
            THEN Ok(r2.sql \o <<" <@ json_altids_id(">> \o Pfx(tp) \o <<"doc)">>, r2)
            ELSE IF Truthy(alt_id_ns) /\ ~Truthy(alt_id)
            THEN Ok(r1.sql \o <<" <@ json_altids_ns(">> \o Pfx(tp) \o <<"doc)">>, r2)
            ELSE Ok(r2.sql \o <<" <@ json_altids_id(">> \o Pfx(tp) \o <<"doc)", " AND ">>
                    \o r1.sql \o <<" <@ json_altids_ns(">> \o Pfx(tp) \o <<"doc)">>, r2)
        Id(r1) == Clause(r1, _value(r1, IF IsList(alt_id) THEN alt_id
                                        ELSE ListV(<<_sub_param(self.query_params, alt_id)>>), FALSE))
    IN  Id(_value(st, IF IsList(alt_id_ns) THEN alt_id_ns
                      ELSE ListV(<<_sub_param(self.query_params, alt_id_ns)>>), FALSE))

\* op.startswith(DQ.ROP_PREFIX)
WhereRange(self, st, op, args, tp) ==
    IF Len(args) # 3 THEN Raise("ValueError")
    ELSE IF op \notin DOMAIN OP_STR THEN Raise("KeyError")
    ELSE
    LET Rng(r) == Ok(Pfx(tp) \o <<Inline(PyStr(args[1])), " ", OP_STR[op], " ">> \o r.sql \o <<"::numrange">>, r)
    IN  Rng(_value(st, Str(<<"[">> \o PyStr(_sub_param(self.query_params, args[2])) \o <<",">>
                           \o PyStr(_sub_param(self.query_params, args[3])) \o <<"]">>), TRUE))

\* DQ.GOP_DISTANCE
WhereDistance(self, st, args, tp) ==
    IF Len(args) # 5 THEN Raise("ValueError")
    ELSE IF ~IsStr(args[1]) THEN Raise("TypeError")
    ELSE IF args[5] \notin DOMAIN OP_STR THEN Raise("KeyError")
    ELSE
    LET Dist(r) == Ok(<<"ST_Distance_Sphere(">> \o Pfx(tp) \o <<Inline(args[1].v), ", ST_SetSRID(ST_Point(">>
                      \o r.sql[1] \o <<", ">> \o r.sql[2] \o <<"),4326)) ", OP_STR[args[5]], " ">> \o r.sql[3], r)
    IN  Dist(ValueCalls(st, <<_sub_param(self.query_params, args[2]), _sub_param(self.query_params, args[3]),
                              _sub_param(self.query_params, args[4])>>))

IsDigits(s) == s # <<>> /\ \A i \in 1..Len(s) : s[i] \in {"0", "1", "2", "3", "4", "5", "6", "7", "8", "9"}

RECURSIVE StripZeros(_)
StripZeros(s) == IF Len(s) > 1 /\ Head(s) = "0" THEN StripZeros(Tail(s)) ELSE s

\* '%f' % float(buf) for a buf that is an int or a str of digits
FloatFmt(buf, num) ==
    IF IsStr(buf) THEN Inline(StripZeros(num)) \o ".000000" ELSE Inline(num) \o ".000000"

\* the *_geom operators: the well-known-text string and the buffer are
\* formatted into the SQL text
WhereGeom(self, st, op, args, tp) ==
    IF Len(args) # 3 THEN Raise("ValueError")
    ELSE
    LET colname == args[1]
        wkt == args[2]
        buf == args[3]
        geom_from_wkt == <<"ST_GeomFromEWKT('SRID=4326;", Inline(PyStr(wkt)), "')">>
        meters == IsStr(buf) /\ EndsWith(Lower(buf.v), <<"m">>)
        num == IF meters THEN SubSeq(buf.v, 1, Len(buf.v) - 1) ELSE PyStr(buf)
        geom == IF ~Truthy(buf) THEN geom_from_wkt
                ELSE <<"ST_Buffer(">> \o geom_from_wkt \o (IF meters THEN <<"::geography">> ELSE <<>>)
                     \o <<", ", FloatFmt(buf, num), ")">> \o (IF meters THEN <<"::geometry">> ELSE <<>>)
    IN  IF Truthy(buf) /\ buf.k \notin {"str", "int"} THEN Raise("TypeError")
        ELSE IF Truthy(buf) /\ IsStr(buf) /\ ~IsDigits(num) THEN Raise("ValueError")
        ELSE IF op \notin DOMAIN OP_STR THEN Raise("KeyError")
        ELSE IF ~IsStr(colname) THEN Raise("TypeError")
        ELSE Ok(<<OP_STR[op]>> \o Pfx(tp) \o <<Inline(colname.v), ",">> \o geom \o <<")">>, st)

\* the bounding-box operators
WhereBBox(self, st, op, args, tp) ==
    IF Len(args) # 5 THEN Raise("ValueError")
    ELSE IF ~IsStr(args[1]) THEN Raise("TypeError")
    ELSE IF op \notin DOMAIN OP_STR THEN Raise("KeyError")
    ELSE
    LET Box(r) == Ok(Pfx(tp) \o <<Inline(args[1].v), " ", OP_STR[op], " ST_MakeEnvelope(">> \o r.sql[1] \o <<",">>
                     \o r.sql[2] \o <<",">> \o r.sql[3] \o <<",">> \o r.sql[4] \o <<",4326)">>, r)
    IN  Box(ValueCalls(st, <<args[2], args[3], args[4], args[5]>>))

-----------------------------------------------------------------------------
(* _build_where: logical composition and the association traversals       *)

RECURSIVE _build_where(_, _, _, _)
RECURSIVE BuildChildren(_, _, _, _)
RECURSIVE assoc_level(_, _, _, _, _)

RECURSIVE JoinWith(_, _)
\* keyword.join(fragments)
JoinWith(frs, keyword) ==
    IF frs = <<>> THEN <<>>
    ELSE Head(frs) \o (IF Len(frs) > 1 THEN <<keyword>> ELSE <<>>) \o JoinWith(Tail(frs), keyword)

\* (self._build_where(ex, table_prefix=table_prefix) for ex in args)
BuildChildren(self, st, exprs, tp) ==
    IF exprs = <<>> THEN [frs |-> <<>>, cnt |-> st.cnt, vals |-> st.vals, err |-> ""]
    ELSE LET Cons(r1, r2) ==
                 IF r2.err # "" THEN r2
                 ELSE [frs |-> <<r1.sql>> \o r2.frs, cnt |-> r2.cnt, vals |-> r2.vals, err |-> ""]
             Rest(r1) ==
                 IF r1.err # "" THEN [frs |-> <<>>, cnt |-> 0, vals |-> <<>>, err |-> r1.err]
                 ELSE Cons(r1, BuildChildren(self, r1, Tail(exprs), tp))
         IN  Rest(_build_where(self, st, Head(exprs), tp))

\* A plausible defect: the group is not parenthesized.
GroupBare(frs, keyword) == JoinWith(frs, keyword)

\* "(%s)" % keyword.join(...)
Group(frs, keyword) == <<"(">> \o JoinWith(frs, keyword) \o <<")">>

\* DQ.EXP_AND, DQ.EXP_OR
WhereGroup(self, st, args, tp, keyword) ==
    LET Grouped(r) == IF r.err # "" THEN Raise(r.err) ELSE Ok(Group(r.frs, keyword), r)
    IN  Grouped(BuildChildren(self, st, args, tp))

\* A plausible defect: the negated fragment is not parenthesized.
WhereNotBare(self, st, args, tp) ==
    IF Len(args) < 1 THEN Raise("IndexError")
    ELSE LET Negated(r) == IF r.err # "" THEN r ELSE Ok(<<"NOT ">> \o r.sql, r)
         IN  Negated(_build_where(self, st, args[1], tp))

\* DQ.EXP_NOT
WhereNot(self, st, args, tp) ==
    IF Len(args) < 1 THEN Raise("IndexError")
    ELSE LET Negated(r) == IF r.err # "" THEN r ELSE Ok(<<"NOT (">> \o r.sql \o <<")">>, r)
         IN  Negated(_build_where(self, st, args[1], tp))

\* x[i] of a str, list or tuple (i counted from 0)
Index(x, i) == IF IsStr(x) THEN Str(<<x.v[i + 1]>>) ELSE x.v[i + 1]

\* A plausible defect: every nesting level takes the alias of level 0.
LevelAliasFlat(lvnum) == "A0"

\* "A" + str(lvnum)
LevelAlias(lvnum) == "A" \o ToString(lvnum)

\* the predicate clause of one level
LevelPredicate(self, st, lvpred, ltab) ==
    LET In(r) == Ok(<<" AND ", ltab, ".p IN (">> \o r.sql \o <<")">>, r)
        Eq(r) == Ok(<<" AND ", ltab, ".p=">> \o r.sql, r)
    IN  IF Truthy(lvpred) /\ IsList(lvpred) THEN In(BindEach(self, st, lvpred.v, FALSE))
        ELSE IF Truthy(lvpred) THEN Eq(_value(st, _sub_param(self.query_params, lvpred), TRUE))
        ELSE Ok(<<>>, st)

\* the innermost level: target, target_type, target_filter
LevelLeaf(self, st, a, ltab, aatt) ==
    LET In(r) == Ok(<<ltab, ".", aatt, " IN (">> \o r.sql \o <<")">>, r)
        Eq(r) == Ok(<<ltab, ".", aatt, "=">> \o r.sql, r)
        TypeIn(r) == Ok(<<ltab, ".", aatt, "t IN (">> \o r.sql \o <<")">>, r)
        TypeEq(r) == Ok(<<ltab, ".", aatt, "t=">> \o r.sql, r)
        TypeEqFiltered(r1, r2) ==
            IF r2.err # "" THEN r2
            ELSE Ok(<<ltab, ".", aatt, "t=">> \o r1.sql
                    \o <<" AND ", ltab, ".", aatt, " IN (SELECT id from ", Inline(self.basetable),
                         " AS ART WHERE ">> \o r2.sql \o <<")">>, r2)
        Type(r1) == IF a.target_filter # NoneV
                    THEN TypeEqFiltered(r1, _build_where(self, r1, a.target_filter, "ART."))
                    ELSE TypeEq(r1)
        Filtered(r2) ==
            IF r2.err # "" THEN r2
            ELSE Ok(<<ltab, ".", aatt, " IN (SELECT id from ", Inline(self.basetable),
                      " AS ART WHERE ">> \o r2.sql \o <<")">>, r2)
    IN  IF Truthy(a.target) /\ IsList(a.target) THEN In(BindEach(self, st, a.target.v, FALSE))
        ELSE IF Truthy(a.target) THEN Eq(_value(st, _sub_param(self.query_params, a.target), TRUE))
        ELSE IF Truthy(a.target_type) /\ IsList(a.target_type)
        THEN TypeIn(BindEach(self, st, a.target_type.v, FALSE))
        ELSE IF Truthy(a.target_type) THEN Type(_value(st, _sub_param(self.query_params, a.target_type), TRUE))
        ELSE IF a.target_filter # NoneV THEN Filtered(_build_where(self, st, a.target_filter, "ART."))
        ELSE Raise("BadRequest")

\* assoc_level(lvnum, idcol), the closure of the associated-with branch;
\* a holds target, target_type, predicate, direction, target_filter
assoc_level(self, st, a, lvnum, idcol) ==
    LET lvdir == a.direction.v[lvnum + 1]
        lvpred == IF Truthy(a.predicate) /\ Len(a.direction.v) > 1
                  THEN Index(a.predicate, lvnum) ELSE a.predicate
        ltab == LevelAlias(lvnum)
        idatt == IF lvdir = "S" THEN "s" ELSE "o"
        aatt == IF lvdir = "S" THEN "o" ELSE "s"
        head == <<idcol, " IN (SELECT ", ltab, ".", idatt, " FROM ", Inline(self.basetable),
                  "_assoc AS ", ltab, " WHERE ">>
        Level(inner, rp) == Ok(head \o inner.sql \o rp.sql \o <<")">>, rp)
        Inner(inner) == IF inner.err # "" THEN inner
                        ELSE Level(inner, LevelPredicate(self, inner, lvpred, ltab))
    IN  IF lvdir = "S" \/ lvdir = "O"
        THEN IF Len(a.direction.v) <= lvnum + 1
             THEN Inner(LevelLeaf(self, st, a, ltab, aatt))
             ELSE Inner(assoc_level(self, st, a, lvnum + 1, ltab \o "." \o aatt))
        ELSE IF lvdir = "A" THEN Raise("NotImplementedError")
        ELSE Raise("BadRequest")

\* len(x) of a str, list or tuple
PyLen(x) == Len(x.v)

\* A plausible defect: the arguments are not validated.
WhereAssociatedUnchecked(self, st, args, tp) ==
    IF Len(args) # 5 THEN Raise("ValueError")
    ELSE assoc_level(self, st,
                     [target |-> args[1], target_type |-> args[2], predicate |-> args[3],
                      direction |-> IF Truthy(args[4]) THEN args[4] ELSE Str(<<"A">>),
                      target_filter |-> args[5]], 0, "id")

\* A plausible defect: the length of the predicate list is not checked, and a
\* list shorter than the direction fails when a level reads predicate[lvnum].
WhereAssociatedAnyLength(self, st, args, tp) ==
    IF Len(args) # 5 THEN Raise("ValueError")
    ELSE
    LET direction == IF Truthy(args[4]) THEN args[4] ELSE Str(<<"A">>)
        a == [target |-> args[1], target_type |-> args[2], predicate |-> args[3],
              direction |-> direction, target_filter |-> args[5]]
    IN  IF Truthy(args[1]) /\ Truthy(args[2]) THEN Raise("BadRequest")
        ELSE IF Truthy(args[1]) /\ args[5] # NoneV THEN Raise("BadRequest")
        ELSE IF Truthy(args[3]) /\ PyLen(direction) > 1 /\ PyLen(args[3]) < PyLen(direction)
        THEN Raise("IndexError")
        ELSE assoc_level(self, st, a, 0, "id")

\* DQ.ASSOP_ASSOCIATED
WhereAssociated(self, st, args, tp) ==
    IF Len(args) # 5 THEN Raise("ValueError")
    ELSE
    LET target == args[1]
        target_type == args[2]
        predicate == args[3]
        target_filter == args[5]
        direction == IF Truthy(args[4]) THEN args[4] ELSE Str(<<"A">>)
        a == [target |-> target, target_type |-> target_type, predicate |-> predicate,
              direction |-> direction, target_filter |-> target_filter]
    IN  IF Truthy(target) /\ Truthy(target_type) THEN Raise("BadRequest")
        ELSE IF Truthy(target) /\ target_filter # NoneV THEN Raise("BadRequest")
        ELSE IF Truthy(predicate) /\ PyLen(direction) > 1 /\ PyLen(direction) # PyLen(predicate)
        THEN Raise("BadRequest")
        ELSE assoc_level(self, st, a, 0, "id")

\* max_depth > 0 (Python 2 orders None below, str and list above every int)
GreaterThanZero(x) ==
    CASE x.k = "int" -> x.v > 0
      [] x.k = "none" -> FALSE
      [] OTHER -> TRUE

\* A plausible defect: the anchor is bound before the predicates and the
\* target types.
WhereDescendAnchorFirst(self, st, op, args, tp) ==
    IF Len(args) # 4 THEN Raise("ValueError")
    ELSE
    LET target == args[1]
        is_assoc == EndsWith(self.basetable, S__assoc.v)
        assoc_table == IF is_assoc THEN Inline(self.basetable) ELSE Inline(self.basetable) \o "_assoc"
        predicate == IF Truthy(args[3]) /\ ~IsList(args[3]) THEN ListV(<<args[3]>>) ELSE args[3]
        target_type == IF Truthy(args[2]) /\ ~IsList(args[2]) THEN ListV(<<args[2]>>) ELSE args[2]
        idatt == IF op = ASSOP_DESCEND_O THEN "s" ELSE "o"
        aatt == IF op = ASSOP_DESCEND_O THEN "o" ELSE "s"
        Statement(rp, rt, ra, rd) ==
            Ok(<<"id IN (", "WITH RECURSIVE ch_res(chid, path, depth, cycle) AS (",
                 "SELECT ", aatt, ", ARRAY[id::text], 1, false FROM ", assoc_table,
                 " WHERE ", idatt, "=">> \o ra.sql
               \o (IF Truthy(predicate) THEN <<" AND p IN (">> \o rp.sql \o <<")">> ELSE <<>>)
               \o (IF Truthy(target_type) THEN <<" AND ", aatt, "t IN (">> \o rt.sql \o <<")">> ELSE <<>>)
               \o <<" UNION ALL ", "SELECT ass.", aatt,
                    ", ARRAY[ass.id::text] || ch.path, ch.depth + 1, ass.id=ANY(ch.path) FROM ch_res ch, ",
                    assoc_table, " ass", " WHERE ass.", idatt, " = ch.chid AND NOT ch.cycle">>
               \o (IF GreaterThanZero(args[4]) THEN <<" AND ch.depth<">> \o rd.sql ELSE <<>>)
               \o (IF Truthy(predicate) THEN <<" AND ass.p IN (">> \o rp.sql \o <<")">> ELSE <<>>)
               \o (IF Truthy(target_type) THEN <<" AND ", aatt, "t IN (">> \o rt.sql \o <<")">> ELSE <<>>)
               \o (IF is_assoc THEN <<") SELECT path[1] FROM ch_res)">> ELSE <<") SELECT chid FROM ch_res)">>),
               rd)
        Depth(rp, rt, ra) ==
            Statement(rp, rt, ra, IF GreaterThanZero(args[4]) THEN _value(rt, args[4], TRUE) ELSE Ok(<<>>, rt))
        Types(rp, ra) == Depth(rp, IF Truthy(target_type) THEN BindEach(self, rp, target_type.v, FALSE)
                                   ELSE Ok(<<>>, rp), ra)
        Preds(ra) == Types(IF Truthy(predicate) THEN BindEach(self, ra, predicate.v, FALSE) ELSE Ok(<<>>, ra), ra)
    IN  Preds(_value(st, _sub_param(self.query_params, target), TRUE))

\* DQ.ASSOP_DESCEND_O, DQ.ASSOP_DESCEND_S
WhereDescend(self, st, op, args, tp) ==
    IF Len(args) # 4 THEN Raise("ValueError")
    ELSE
    LET target == args[1]
        is_assoc == EndsWith(self.basetable, S__assoc.v)
        assoc_table == IF is_assoc THEN Inline(self.basetable) ELSE Inline(self.basetable) \o "_assoc"
        predicate == IF Truthy(args[3]) /\ ~IsList(args[3]) THEN ListV(<<args[3]>>) ELSE args[3]
        target_type == IF Truthy(args[2]) /\ ~IsList(args[2]) THEN ListV(<<args[2]>>) ELSE args[2]
        idatt == IF op = ASSOP_DESCEND_O THEN "s" ELSE "o"
        aatt == IF op = ASSOP_DESCEND_O THEN "o" ELSE "s"
        Statement(rp, rt, ra, rd) ==
            Ok(<<"id IN (", "WITH RECURSIVE ch_res(chid, path, depth, cycle) AS (",
                 "SELECT ", aatt, ", ARRAY[id::text], 1, false FROM ", assoc_table,
                 " WHERE ", idatt, "=">> \o ra.sql
               \o (IF Truthy(predicate) THEN <<" AND p IN (">> \o rp.sql \o <<")">> ELSE <<>>)
               \o (IF Truthy(target_type) THEN <<" AND ", aatt, "t IN (">> \o rt.sql \o <<")">> ELSE <<>>)
               \o <<" UNION ALL ", "SELECT ass.", aatt,
                    ", ARRAY[ass.id::text] || ch.path, ch.depth + 1, ass.id=ANY(ch.path) FROM ch_res ch, ",
                    assoc_table, " ass", " WHERE ass.", idatt, " = ch.chid AND NOT ch.cycle">>
               \o (IF GreaterThanZero(args[4]) THEN <<" AND ch.depth<">> \o rd.sql ELSE <<>>)
               \o (IF Truthy(predicate) THEN <<" AND ass.p IN (">> \o rp.sql \o <<")">> ELSE <<>>)
               \o (IF Truthy(target_type) THEN <<" AND ", aatt, "t IN (">> \o rt.sql \o <<")">> ELSE <<>>)
               \o (IF is_assoc THEN <<") SELECT path[1] FROM ch_res)">> ELSE <<") SELECT chid FROM ch_res)">>),
               rd)
        Depth(rp, rt, ra) ==
            Statement(rp, rt, ra, IF GreaterThanZero(args[4]) THEN _value(ra, args[4], TRUE) ELSE Ok(<<>>, ra))
        Anchor(rp, rt) == Depth(rp, rt, _value(rt, _sub_param(self.query_params, target), TRUE))
        Types(rp) == Anchor(rp, IF Truthy(target_type) THEN BindEach(self, rp, target_type.v, FALSE)
                                ELSE Ok(<<>>, rp))
    IN  Types(IF Truthy(predicate) THEN BindEach(self, st, predicate.v, FALSE) ELSE Ok(<<>>, st))

\* PostgresQueryBuilder._build_where(expr, table_prefix)
_build_where(self, st, expr, tp) ==
    IF expr = NoneV THEN Ok(<<>>, st)
    ELSE
    LET op == expr.op
        args == expr.args
    IN  IF TagStartsWith(op, OP_PREFIX) THEN WhereCompare(self, st, op, args, tp)
        ELSE IF op = XOP_IN THEN WhereIn(self, st, args, tp)
        ELSE IF op = XOP_BETWEEN THEN WhereBetween(self, st, args, tp)
        ELSE IF op = XOP_ATTLIKE \/ op = XOP_ATTILIKE THEN WhereAttLike(self, st, op, args, tp)
        ELSE IF op = XOP_ALLMATCH THEN WhereAllMatch(self, st, args, tp)
        ELSE IF op = XOP_KEYWORD THEN WhereKeyword(self, st, args, tp)
        ELSE IF op = XOP_ALTID THEN WhereAltId(self, st, args, tp)
        ELSE IF TagStartsWith(op, ROP_PREFIX) THEN WhereRange(self, st, op, args, tp)
        ELSE IF TagStartsWith(op, GOP_PREFIX)
        THEN IF op = GOP_DISTANCE THEN WhereDistance(self, st, args, tp)
             ELSE IF TagEndsWithGeom(op) THEN WhereGeom(self, st, op, args, tp)
             ELSE WhereBBox(self, st, op, args, tp)
        ELSE IF op = EXP_AND THEN WhereGroup(self, st, args, tp, " AND ")
        ELSE IF op = EXP_OR THEN WhereGroup(self, st, args, tp, " OR ")
        ELSE IF op = EXP_NOT THEN WhereNot(self, st, args, tp)
        ELSE IF op = ASSOP_ASSOCIATED THEN WhereAssociated(self, st, args, tp)
        ELSE IF op = ASSOP_DESCEND_O \/ op = ASSOP_DESCEND_S THEN WhereDescend(self, st, op, args, tp)
        ELSE Raise("BadRequest")

-----------------------------------------------------------------------------
(* The statement assembler                                                 *)

\* A plausible defect: colsort is compared as it is written.
RECURSIVE OrderItemsExactCase(_)
OrderItemsExactCase(expr) ==
    IF expr = <<>> THEN <<>>
    ELSE <<Inline(PyStr(Head(expr)[1])),
           IF Head(expr)[2].v = <<"d", "e", "s", "c">> THEN " DESC" ELSE " ASC">>
         \o (IF Len(expr) > 1 THEN <<",">> ELSE <<>>) \o OrderItemsExactCase(Tail(expr))

\* PostgresQueryBuilder._build_order_by(expr): expr is a list of (col, colsort)
RECURSIVE OrderItems(_)
OrderItems(expr) ==
    IF expr = <<>> THEN <<>>
    ELSE <<Inline(PyStr(Head(expr)[1])),
           IF Lower(Head(expr)[2].v) = <<"d", "e", "s", "c">> THEN " DESC" ELSE " ASC">>
         \o (IF Len(expr) > 1 THEN <<",">> ELSE <<>>) \o OrderItems(Tail(expr))

_build_order_by(expr) == IF ~Truthy(expr) THEN <<>> ELSE OrderItems(expr.v)

\* a list of str placed into SQL text, joined by sep
RECURSIVE InlineJoin(_, _)
InlineJoin(l, sep) ==
    IF l = <<>> THEN <<>>
    ELSE <<Inline(PyStr(Head(l)))>> \o (IF Len(l) > 1 THEN <<sep>> ELSE <<>>) \o InlineJoin(Tail(l), sep)

\* The loop over query["from"] of the complex format: i is the index of
\* the first of the remaining tables; [aliases, pieces]
RECURSIVE FromLoop(_, _)
FromLoop(tables, i) ==
    IF tables = <<>> THEN [aliases |-> <<>>, pieces |-> <<>>]
    ELSE LET from_table == Head(tables).v
             at == Find(Lower(from_table), <<" ", "a", "s", " ">>)
             rest == FromLoop(Tail(tables), i + 1)
         IN  IF at >= 0
             THEN [aliases |-> <<Inline(SubSeq(from_table, at + 5, Len(from_table)))>> \o rest.aliases,
                   pieces |-> <<",", Inline(from_table)>> \o rest.pieces]
             ELSE [aliases |-> <<"t" \o ToString(i)>> \o rest.aliases,
                   pieces |-> <<",", Inline(from_table), " as ", "t" \o ToString(i)>> \o rest.pieces]

\* A raw SQL fragment of the QuerySpec (a str or None) as pieces
Raw(x) == IF x = NoneV THEN <<>> ELSE <<Inline(PyStr(x))>>

\* The instance __init__ leaves behind, or the exception it raises
Instance(bt, ft, ta, c, w, ob, gb, hv, st) ==
    [err |-> "", basetable |-> bt, from_tables |-> ft, table_aliases |-> ta, cols |-> c,
     where |-> w, order_by |-> ob, group_by |-> gb, having |-> hv, cnt |-> st.cnt, vals |-> st.vals]

Fresh == [cnt |-> 0, vals |-> <<>>]

\* __init__, query_format == "sql"
InitSql(q, bt) ==
    IF "returns" \notin DOMAIN q \/ "from" \notin DOMAIN q THEN [err |-> "KeyError"]
    ELSE Instance(bt, Raw(q["from"]), <<>>, q["returns"].v,
                  Raw(Get(q, "where", NoneV)), Raw(Get(q, "order_by", NoneV)),
                  Raw(Get(q, "group_by", NoneV)), Raw(Get(q, "having", NoneV)), Fresh)

\* __init__, query_format == "complex"
InitComplex(q, bt) ==
    LET id_only == Get(q["query_args"], "id_only", TRUE)
        basic == <<Str(<<"b", "a", "s", "e", ".", "i", "d">>)>>
                 \o (IF ~id_only THEN <<Str(<<"b", "a", "s", "e", ".", "d", "o", "c">>)>> ELSE <<>>)
        returns == Get(q, "returns", NoneV)
        c == IF Truthy(returns)
             THEN IF returns.v[1] = BoolV(TRUE) THEN basic \o Tail(returns.v) ELSE Tail(returns.v)
             ELSE basic
        from == Get(q, "from", NoneV)
        where_join == Get(q, "where_join", NoneV)
        Built(fl, w) ==
            IF w.err # "" THEN [err |-> w.err]
            ELSE Instance(bt, <<Inline(bt), " AS base">> \o fl.pieces, <<"base">> \o fl.aliases, c,
                          IF Truthy(where_join)
                          THEN <<"(">> \o w.sql \o <<") AND ((">> \o InlineJoin(where_join.v, ") AND (") \o <<"))">>
                          ELSE w.sql,
                          _build_order_by(q["order_by"]),
                          Raw(Get(q, "group_by", NoneV)), Raw(Get(q, "having", NoneV)), w)
    IN  Built(IF Truthy(from) THEN FromLoop(from.v, 0) ELSE [aliases |-> <<>>, pieces |-> <<>>],
              _build_where([query |-> q, basetable |-> bt, query_params |-> Get(q, "query_params", <<>>)],
                           Fresh, q["where"], ""))

\* __init__, every other query_format
InitPlain(q, bt) ==
    LET id_only == Get(q["query_args"], "id_only", TRUE)
        c == <<S_id>> \o (IF ~id_only THEN <<Str(<<"d", "o", "c">>)>> ELSE <<>>)
        ds_sub == Get(q["query_args"], "ds_sub", S_empty)
        Built(bt2, w) ==
            IF w.err # "" THEN [err |-> w.err]
            ELSE Instance(bt2, <<Inline(bt2)>>, <<Inline(bt2)>>, c, w.sql,
                          _build_order_by(q["order_by"]), <<>>, <<>>, w)
        Where(bt2) ==
            Built(bt2, _build_where([query |-> q, basetable |-> bt2,
                                     query_params |-> Get(q, "query_params", <<>>)],
                                    Fresh, q["where"], ""))
    IN  Where(IF Truthy(ds_sub) THEN bt \o <<"_">> \o ds_sub.v ELSE bt)

\* PostgresQueryBuilder.__init__(query, basetable)
__init__(q, bt) ==
    LET query_format == Get(q["query_args"], "format", "")
    IN  IF query_format = "sql" THEN InitSql(q, bt)
        ELSE IF query_format = "complex" THEN InitComplex(q, bt)
        ELSE InitPlain(q, bt)

\* A plausible defect: LIMIT and OFFSET are emitted for every value but zero.
get_query_nonzero(q, c, ft, w, gb, hv, ob) ==
    LET qargs == q["query_args"]
    IN  <<"SELECT ">> \o InlineJoin(c, ",") \o <<" FROM ">> \o ft
        \o (IF Render(w) # "" THEN <<" WHERE ">> \o w ELSE <<>>)
        \o (IF Render(gb) # ""
            THEN <<" GROUP BY ">> \o gb \o (IF Render(hv) # "" THEN <<" HAVING ">> \o hv ELSE <<>>)
            ELSE <<>>)
        \o (IF Render(ob) # "" THEN <<" ORDER BY ">> \o ob ELSE <<>>)
        \o (IF Get(qargs, "limit", 0) # 0 THEN <<" LIMIT ", Inline(IntChars(qargs["limit"]))>> ELSE <<>>)
        \o (IF Get(qargs, "skip", 0) # 0 THEN <<" OFFSET ", Inline(IntChars(qargs["skip"]))>> ELSE <<>>)

\* PostgresQueryBuilder.get_query()
get_query(q, c, ft, w, gb, hv, ob) ==
    LET qargs == q["query_args"]
    IN  <<"SELECT ">> \o InlineJoin(c, ",") \o <<" FROM ">> \o ft
        \o (IF Render(w) # "" THEN <<" WHERE ">> \o w ELSE <<>>)
        \o (IF Render(gb) # ""
            THEN <<" GROUP BY ">> \o gb \o (IF Render(hv) # "" THEN <<" HAVING ">> \o hv ELSE <<>>)
            ELSE <<>>)
        \o (IF Render(ob) # "" THEN <<" ORDER BY ">> \o ob ELSE <<>>)
        \o (IF Get(qargs, "limit", 0) > 0 THEN <<" LIMIT ", Inline(IntChars(qargs["limit"]))>> ELSE <<>>)
        \o (IF Get(qargs, "skip", 0) > 0 THEN <<" OFFSET ", Inline(IntChars(qargs["skip"]))>> ELSE <<>>)

\* PostgresQueryBuilder.get_base_alias()
get_base_alias == "base"

-----------------------------------------------------------------------------
(* The inputs of the model: QuerySpecs and base tables                     *)

C_a == Str(<<"a">>)
C_b == Str(<<"b">>)
C_x == Str(<<"x">>)
C_custom == Str(<<"c", "u", "s", "t", "o", "m">>)
C_geom == Str(<<"g", "e", "o", "m">>)
C_wkt == Str(<<"P", "O", "I", "N", "T", "(", "1", " ", "2", ")">>)
RefP == Str(<<"$", "(", "p", ")">>)     \* template reference, name in query_params
RefN == Str(<<"$", "(", "n", ")">>)     \* template reference, name in query_params
RefQ == Str(<<"$", "(", "q", ")">>)     \* template reference, name absent
BT_res == <<"r", "e", "s">>
BT_res_assoc == <<"r", "e", "s", "_", "a", "s", "s", "o", "c">>

Params == (<<"p">> :> C_x) @@ (<<"n">> :> IntV(7))

\* query_args and query_params: profile, ds_sub, and whether query_params is given
Context(profile, ds_sub, with_params) ==
    [profile |-> profile, ds_sub |-> ds_sub, with_params |-> with_params]

Contexts ==
    {Context(pr, ds, wp) : pr \in {DS_PROFILE_RESOURCES, DS_PROFILE_EVENTS, "OBJECTS"},
                           ds \in {S_empty, S_assoc}, wp \in BOOLEAN}

FewContexts ==
    {Context(DS_PROFILE_RESOURCES, S_empty, TRUE), Context(DS_PROFILE_RESOURCES, S_empty, FALSE),
     Context(DS_PROFILE_EVENTS, S_empty, TRUE), Context("OBJECTS", S_empty, TRUE)}

\* A plain-format QuerySpec
PlainQuery(ctx, w) ==
    [query_args |-> [profile |-> ctx.profile, ds_sub |-> ctx.ds_sub, format |-> "", id_only |-> TRUE],
     where |-> w, order_by |-> ListV(<<>>)]
    @@ (IF ctx.with_params THEN [query_params |-> Params] ELSE <<>>)

\* Sequences over S of length 0..n
SeqsUpTo(S, n) == UNION {[1..k -> S] : k \in 0..n}

Scalars == {C_a, IntV(1), RefP, RefN, RefQ, NoneV}

CatalogOps == {OP_EQ, OP_NEQ, OP_LT, OP_LTE, OP_GT, OP_GTE, OP_LIKE, OP_ILIKE, OP_FUZZY, OP_REGEX, OP_IREGEX}
BogusOp == Tag(OP_PREFIX, "bogus", "")
BogusRop == Tag(ROP_PREFIX, "bogus", "")
BogusGop == Tag(GOP_PREFIX, "bogus", "")
BogusGeom == Tag(GOP_PREFIX, "bogus", "_geom")
UnknownTags == {Tag("foo:", "bar", ""), Tag(XOP_PREFIX, "bogus", ""), Tag(EXP_PREFIX, "xor", "")}

CompareLeaves ==
    {Expr(op, <<att, C_a>>) : op \in CatalogOps \cup {BogusOp}, att \in {S_name, C_custom}}
    \cup {Expr(OP_EQ, <<att, v>>) : att \in {S_name, S_s, S_origin, C_custom}, v \in Scalars}
    \cup {Expr(OP_EQ, <<att, C_a>>) : att \in AssocCols \cup ResourceCols \cup EventCols}

InLeaves ==
    {Expr(XOP_IN, <<att>> \o vs) : att \in {S_name, C_custom},
                                   vs \in SeqsUpTo({C_a, IntV(1), RefP, RefN, RefQ}, MaxVals)}

BetweenLeaves ==
    {Expr(XOP_BETWEEN, <<att, lo, hi>>) : att \in {S_name, C_custom},
                                          lo \in {C_a, IntV(1), RefQ}, hi \in {C_b, RefN}}

TextLeaves ==
    {Expr(op, <<C_custom, v>>) : op \in {XOP_ATTLIKE, XOP_ATTILIKE}, v \in {C_a, RefP}}
    \cup {Expr(XOP_ALLMATCH, <<v, c>>) : v \in {C_a, IntV(1), RefP}, c \in {TXT_CONTAINS, TXT_ICONTAINS}}
    \cup {Expr(XOP_KEYWORD, <<v>>) : v \in {C_a, RefP, ListV(<<C_a, C_b>>)}}

AltIdLeaves ==
    {Expr(XOP_ALTID, <<ns, id>>) : ns \in {NoneV, C_a, RefP, ListV(<<C_a>>)},
                                   id \in {NoneV, C_b, ListV(<<C_b>>)}}

RangeLeaves ==
    {Expr(op, <<C_geom, lo, IntV(2)>>) :
        op \in {ROP_OVERLAPS_RANGE, ROP_CONTAINS_RANGE, ROP_WITHIN_RANGE, BogusRop}, lo \in {IntV(1), RefN}}

GeoLeaves ==
    {Expr(op, <<C_geom, x1, IntV(2), IntV(3), IntV(4)>>) :
        op \in {GOP_OVERLAPS_BBOX, GOP_CONTAINS_BBOX, GOP_WITHIN_BBOX, BogusGop}, x1 \in {IntV(1), RefN}}
    \cup {Expr(op, <<C_geom, wkt, buf>>) :
        op \in {GOP_OVERLAPS_GEOM, GOP_CROSSES_GEOM, GOP_CONTAINS_GEOM, GOP_TOUCHES_GEOM,
                GOP_WITHIN_GEOM, BogusGeom},
        wkt \in {C_wkt, RefP},
        buf \in {NoneV, IntV(5), Str(<<"5">>), Str(<<"5", "m">>), C_x}}
    \cup {Expr(GOP_DISTANCE, <<C_geom, IntV(1), IntV(2), d, c>>) :
        d \in {IntV(3), RefN}, c \in {OP_LT, OP_GTE, BogusOp}}

Directions == {NoneV, Str(<<"A">>), Str(<<"X">>)} \cup {Str(d) : d \in SeqsUpTo({"S", "O"}, MaxDir)}

AssocLeaves ==
    {Expr(ASSOP_ASSOCIATED, <<t, tt, pr, d, tf>>) :
        t \in {NoneV, C_a, ListV(<<C_a, RefP>>)},
        tt \in {NoneV, C_b, ListV(<<C_b>>)},
        pr \in {NoneV, C_x, ListV(<<C_x>>), ListV(<<C_x, RefP>>)},
        d \in Directions,
        tf \in {NoneV, Expr(OP_EQ, <<S_name, C_a>>), Expr(XOP_KEYWORD, <<C_a>>)}}

DescendLeaves ==
    {Expr(op, <<t, tt, pr, IntV(d)>>) :
        op \in {ASSOP_DESCEND_O, ASSOP_DESCEND_S},
        t \in {C_a, RefP},
        tt \in {NoneV, C_b, ListV(<<C_b, C_a>>)},
        pr \in {NoneV, C_x, ListV(<<C_x, RefP>>)},
        d \in {0, 3}}

\* Associated-with predicates whose predicate list is empty
EmptyPredicateLeaves ==
    {Expr(ASSOP_ASSOCIATED, <<C_a, NoneV, ListV(<<>>), Str(d), NoneV>>) : d \in {<<"S">>, <<"S", "O">>}}

UnknownLeaves == {Expr(op, <<S_name, C_a>>) : op \in UnknownTags}

Leaves ==
    CompareLeaves \cup InLeaves \cup BetweenLeaves \cup TextLeaves \cup AltIdLeaves
    \cup RangeLeaves \cup GeoLeaves \cup DescendLeaves \cup UnknownLeaves \cup {NoneV}
    \cup EmptyPredicateLeaves

\* The leaves the AND/OR/NOT trees are built over
TreeLeaves ==
    {Expr(OP_EQ, <<S_name, C_a>>),
     Expr(XOP_BETWEEN, <<S_name, C_a, C_b>>),
     Expr(XOP_ALTID, <<C_a, C_b>>)}

\* The trees of exactly n nodes; an AND or OR has at least one child
RECURSIVE Trees(_)
RECURSIVE Forests(_)
Trees(n) ==
    IF n = 1 THEN TreeLeaves
    ELSE {Expr(EXP_NOT, <<t>>) : t \in Trees(n - 1)}
         \cup {Expr(op, f) : op \in {EXP_AND, EXP_OR}, f \in Forests(n - 1)}

\* The non-empty sequences of trees of n nodes in all
Forests(n) ==
    UNION {{<<t>> \o f : t \in Trees(k), f \in (IF k = n THEN {<<>>} ELSE Forests(n - k))} : k \in 1..n}

TreeExprs == UNION {Trees(n) : n \in 2..MaxNodes}

\* limit and skip of query_args: absent, zero, positive, negative
Limits == {<<>>, [limit |-> 0], [limit |-> 5], [limit |-> 0 - 1]}
Skips == {<<>>, [skip |-> 0], [skip |-> 2]}

\* query_args of a QuerySpec of the resource profile
QueryArgs(format, id_only, lim, skp) ==
    [profile |-> DS_PROFILE_RESOURCES, ds_sub |-> S_empty, format |-> format, id_only |-> id_only]
    @@ lim @@ skp

\* Raw fragments and sort orders of the QuerySpecs
C_having == Str(<<"c", "o", "u", "n", "t", "(", "*", ")", ">", "1">>)
C_desc == Str(<<"D", "e", "s", "c">>)
C_asc == Str(<<"a", "s", "c">>)
C_DESC == Str(<<"D", "E", "S", "C">>)
C_descending == Str(<<"d", "e", "s", "c", "e", "n", "d", "i", "n", "g">>)
OrderBys ==
    {ListV(<<>>), ListV(<<<<S_name, C_desc>>>>), ListV(<<<<S_name, C_asc>>, <<S_type_, C_desc>>>>),
     ListV(<<<<S_name, C_DESC>>, <<S_type_, C_descending>>, <<S_id, S_empty>>>>)}
GroupBys == {<<>>, [group_by |-> S_name], [group_by |-> S_empty]}
Havings == {<<>>, [having |-> C_having]}

\* The QuerySpecs that exercise the clauses of the statement, in the plain,
\* the complex and the raw-sql format
AssemblyInputs ==
    {[q |-> [query_args |-> QueryArgs("", io, lim, skp), where |-> w, order_by |-> ob], bt |-> BT_res] :
        io \in BOOLEAN, lim \in Limits, skp \in Skips, ob \in OrderBys,
        w \in {NoneV, Expr(OP_EQ, <<S_name, C_a>>)}}
    \cup {[q |-> [query_args |-> QueryArgs("complex", TRUE, lim, skp), where |-> w, order_by |-> ob]
                 @@ gb @@ hv,
           bt |-> BT_res] :
        lim \in {<<>>, [limit |-> 5]}, skp \in {<<>>, [skip |-> 2]}, ob \in OrderBys,
        w \in {NoneV, Expr(OP_EQ, <<S_name, C_a>>)}, gb \in GroupBys, hv \in Havings}
    \cup {[q |-> [query_args |-> QueryArgs("sql", TRUE, lim, skp), where |-> NoneV,
                  returns |-> ListV(<<S_id, S_name>>), from |-> Str(BT_res)]
                 @@ gb @@ hv @@ ob,
           bt |-> BT_res] :
        lim \in {<<>>, [limit |-> 5]}, skp \in {<<>>, [skip |-> 2]},
        ob \in {<<>>, [order_by |-> S_name]}, gb \in GroupBys, hv \in Havings}

\* Complex-format QuerySpecs with a from list: tables without an alias and
\* with an inline alias
T_x == Str(<<"x">>)
T_y_as_t1 == Str(<<"y", " ", "a", "s", " ", "t", "1">>)
T_z_AS_u == Str(<<"z", " ", "A", "S", " ", "u">>)
FromInputs ==
    {[q |-> [query_args |-> QueryArgs("complex", TRUE, <<>>, <<>>), where |-> NoneV,
             order_by |-> ListV(<<>>), from |-> ListV(f)],
      bt |-> BT_res] : f \in SeqsUpTo({T_x, T_y_as_t1, T_z_AS_u}, 2)}

\* Associated-with predicates whose target filter is a descend or a tree
FilterInputs ==
    {[q |-> PlainQuery(Context(DS_PROFILE_RESOURCES, S_empty, TRUE),
                       Expr(ASSOP_ASSOCIATED, <<NoneV, tt, NoneV, Str(<<"S">>), tf>>)),
      bt |-> BT_res] :
        tt \in {NoneV, C_b},
        tf \in {Expr(ASSOP_DESCEND_O, <<C_a, NoneV, NoneV, IntV(0)>>),
                Expr(EXP_AND, <<Expr(OP_EQ, <<S_name, C_a>>), Expr(XOP_KEYWORD, <<C_a>>)>>),
                Expr(EXP_OR, <<Expr(OP_EQ, <<C_custom, C_a>>), Expr(EXP_NOT, <<Expr(OP_EQ, <<S_name, C_a>>)>>)>>),
                Expr(EXP_NOT, <<Expr(ASSOP_DESCEND_S, <<C_a, NoneV, C_x, IntV(2)>>)>>)}}

\* QuerySpecs whose query_params is given as the empty mapping
EmptyParamsInputs ==
    {[q |-> PlainQuery(Context(DS_PROFILE_RESOURCES, S_empty, FALSE), w) @@ [query_params |-> <<>>],
      bt |-> BT_res] :
        w \in {Expr(OP_EQ, <<S_name, v>>) : v \in {RefP, RefQ, C_a}}
               \cup {Expr(XOP_BETWEEN, <<att, v, RefN>>) : att \in {S_name, C_custom}, v \in {RefP, C_a}}}

Inputs ==
    {[q |-> PlainQuery(ctx, w), bt |-> BT_res] : ctx \in Contexts, w \in Leaves}
    \cup AssemblyInputs
    \cup EmptyParamsInputs
    \cup FromInputs
    \cup FilterInputs
    \cup {[q |-> PlainQuery(ctx, w), bt |-> bt] :
            ctx \in FewContexts, w \in AssocLeaves \cup DescendLeaves, bt \in {BT_res, BT_res_assoc}}
    \cup {[q |-> PlainQuery(ctx, w), bt |-> BT_res] :
            ctx \in {Context(DS_PROFILE_RESOURCES, S_empty, TRUE), Context("OBJECTS", S_empty, TRUE)},
            w \in TreeExprs}

-----------------------------------------------------------------------------
(* The state machine: one compiler instance at a time                      *)

NoInstance ==
    /\ basetable = <<>>
    /\ from_tables = <<>>
    /\ table_aliases = <<>>
    /\ cols = <<>>
    /\ where = <<>>
    /\ order_by = <<>>
    /\ group_by = <<>>
    /\ having = <<>>
    /\ valcnt = 0
    /\ values = <<>>

\* No statement is run, no other instance exists
NoInstances == [i \in {1, 2} |-> [phase |-> "none"]]
NoOutside ==
    /\ assoc = {}
    /\ exec = "idle"
    /\ working = {}
    /\ ch_res = {}
    /\ insts = NoInstances

Init ==
    /\ phase = "none"
    /\ query = NoneV
    /\ NoInstance
    /\ error = ""
    /\ sql_out = <<>>
    /\ values_out = <<>>
    /\ returned = <<>>
    /\ NoOutside

\* A plausible defect: an instance is handed out although __init__ raised.
InstalledBestEffort(r) ==
    /\ phase' = "built"
    /\ error' = r.err
    /\ IF r.err # ""
       THEN UNCHANGED <<basetable, from_tables, table_aliases, cols, where, order_by,
                        group_by, having, valcnt, values>>
       ELSE /\ basetable' = r.basetable
            /\ from_tables' = r.from_tables
            /\ table_aliases' = r.table_aliases
            /\ cols' = r.cols
            /\ where' = r.where
            /\ order_by' = r.order_by
            /\ group_by' = r.group_by
            /\ having' = r.having
            /\ valcnt' = r.cnt
            /\ values' = r.vals

\* The fields __init__ assigned, or the exception it raised
Installed(r) ==
    IF r.err # ""
    THEN /\ phase' = "failed"
         /\ error' = r.err
         /\ UNCHANGED <<basetable, from_tables, table_aliases, cols, where, order_by,
                        group_by, having, valcnt, values>>
    ELSE /\ phase' = "built"
         /\ error' = ""
         /\ basetable' = r.basetable
         /\ from_tables' = r.from_tables
         /\ table_aliases' = r.table_aliases
         /\ cols' = r.cols
         /\ where' = r.where
         /\ order_by' = r.order_by
         /\ group_by' = r.group_by
         /\ having' = r.having
         /\ valcnt' = r.cnt
         /\ values' = r.vals

\* PostgresQueryBuilder(query, basetable)
Construct(q, bt) ==
    /\ phase = "none"
    /\ Installed(__init__(q, bt))
    /\ query' = q
    /\ UNCHANGED <<sql_out, values_out, returned, outside>>

\* instance.get_query()
GetQuery ==
    /\ phase = "built"
    /\ sql_out' = get_query(query, cols, from_tables, where, group_by, having, order_by)
    /\ UNCHANGED <<phase, query, basetable, from_tables, table_aliases, cols, where, order_by,
                   group_by, having, valcnt, values, error, values_out, returned, outside>>

\* instance.get_values()
GetValues ==
    /\ phase = "built"
    /\ values_out' = values
    /\ UNCHANGED <<phase, query, basetable, from_tables, table_aliases, cols, where, order_by,
                   group_by, having, valcnt, values, error, sql_out, returned, outside>>

\* The caller drops the instance (or the exception), and may compile again
Discard ==
    /\ phase \in {"built", "failed"}
    /\ phase' = "none"
    /\ query' = NoneV
    /\ basetable' = <<>>
    /\ from_tables' = <<>>
    /\ table_aliases' = <<>>
    /\ cols' = <<>>
    /\ where' = <<>>
    /\ order_by' = <<>>
    /\ group_by' = <<>>
    /\ having' = <<>>
    /\ valcnt' = 0
    /\ values' = <<>>
    /\ error' = ""
    /\ sql_out' = <<>>
    /\ values_out' = <<>>
    /\ UNCHANGED <<returned, outside>>

Next ==
    \/ \E i \in Inputs : Construct(i.q, i.bt)
    \/ GetQuery
    \/ GetValues
    \/ Discard

Spec == Init /\ [][Next]_vars

-----------------------------------------------------------------------------
(* The binder alone: direct _value calls on one fresh instance             *)

BindValues ==
    {C_a, C_b, IntV(1), NoneV, ListV(<<>>), ListV(<<C_a, C_a>>), ListV(<<C_a, IntV(1), C_b>>),
     ListV(<<ListV(<<C_a, C_b>>), IntV(1)>>), ListV(<<ListV(<<>>), C_b>>)}

\* The placeholders of a fragment _value returned, in order
Placeholders(sql) == SelectSeq(sql, LAMBDA piece : piece # ",")

\* A fresh instance over an empty query: no placeholder bound yet
InitBinder ==
    /\ phase = "built"
    /\ query = PlainQuery(Context(DS_PROFILE_RESOURCES, S_empty, FALSE), NoneV)
    /\ basetable = BT_res
    /\ from_tables = <<Inline(BT_res)>>
    /\ table_aliases = <<Inline(BT_res)>>
    /\ cols = <<S_id>>
    /\ where = <<>>
    /\ order_by = <<>>
    /\ group_by = <<>>
    /\ having = <<>>
    /\ valcnt = 0
    /\ values = <<>>
    /\ error = ""
    /\ sql_out = <<>>
    /\ values_out = <<>>
    /\ returned = <<>>
    /\ NoOutside

\* The binder state after a call, and the placeholders it returned
Bound(r) ==
    /\ valcnt' = r.cnt
    /\ values' = r.vals
    /\ returned' = returned \o Placeholders(r.sql)

\* instance._value(value, flatten_list)
BindCall(value, flatten_list) ==
    /\ valcnt < MaxBinds
    /\ Len(returned) < MaxBinds
    /\ Bound(_value([cnt |-> valcnt, vals |-> values], value, flatten_list))
    /\ UNCHANGED <<phase, query, basetable, from_tables, table_aliases, cols, where, order_by,
                   group_by, having, error, sql_out, values_out, outside>>

NextBinder == \E value \in BindValues, flatten_list \in BOOLEAN : BindCall(value, flatten_list)

SpecBinder == InitBinder /\ [][NextBinder]_vars

-----------------------------------------------------------------------------
(* Vocabulary of the properties                                            *)

\* The compilation has run: the instance exists or __init__ raised
Compiled == phase \in {"built", "failed"}
Built == phase = "built"
Failed(kind) == phase = "failed" /\ error = kind /\ where = <<>> /\ valcnt = 0 /\ values = <<>> /\ sql_out = <<>>

\* The where-predicate of the compiled QuerySpec, its tag and arguments
HasWhere == Compiled /\ query.where # NoneV
WhereOp == query.where.op
WhereArgs == query.where.args
Profile == query.query_args.profile
SubTable == query.query_args.ds_sub
KnownProfile == Profile \in {DS_PROFILE_RESOURCES, DS_PROFILE_EVENTS}
\* A query_params mapping is given with the QuerySpec; it has an entry
ParamsSupplied == "query_params" \in DOMAIN query
HasParams == ParamsSupplied /\ DOMAIN query.query_params # {}

\* The whitelist in force for the QuerySpec
Whitelist ==
    IF Profile = DS_PROFILE_RESOURCES /\ SubTable = S_assoc THEN AssocCols
    ELSE IF Profile = DS_PROFILE_RESOURCES THEN ResourceCols
    ELSE IF Profile = DS_PROFILE_EVENTS THEN EventCols
    ELSE {}

\* The placeholder numbered n, and the binding {v1: vals[1], ..., vn: vals[n]}
Ph(n) == "%(v" \o ToString(n) \o ")s"
Binding(vals) == [name \in {"v" \o ToString(i) : i \in 1..Len(vals)} |->
                    vals[CHOOSE i \in 1..Len(vals) : name = "v" \o ToString(i)]]

\* Ph(from), ",", Ph(from + 1), ... : n comma-joined placeholders
RECURSIVE PhList(_, _)
PhList(from, n) ==
    IF n = 0 THEN <<>>
    ELSE <<Ph(from)>> \o (IF n > 1 THEN <<",">> ELSE <<>>) \o PhList(from + 1, n - 1)

\* A template reference $(name), and the name it refers to
IsTemplateRef(v) == IsStr(v) /\ Len(v.v) >= 3 /\ v.v[1] = "$" /\ v.v[2] = "(" /\ v.v[Len(v.v)] = ")"
RefName(v) == SubSeq(v.v, 3, Len(v.v) - 1)

\* What a literal stands for: a template reference resolved against a supplied
\* non-empty query_params (the null value when the name is absent), every
\* other literal itself
Resolved(v) ==
    IF HasParams /\ IsTemplateRef(v)
    THEN IF RefName(v) \in DOMAIN query.query_params THEN query.query_params[RefName(v)] ELSE NoneV
    ELSE v

\* str(v) as a Python value
Text(v) == Str(PyStr(v))

-----------------------------------------------------------------------------
(* Properties of the binder (SpecBinder)                                   *)

\* The keys of the binding are exactly v1..vn, n the counter
KeysAreOneToCounter ==
    /\ DOMAIN values = {ValName(i) : i \in 1..valcnt}
    /\ Cardinality(DOMAIN values) = valcnt

\* The i-th placeholder returned is the one numbered i: every one is numbered
\* above all returned before it, and no two are the same
ReturnedInIncreasingOrder ==
    /\ Len(returned) = valcnt
    /\ \A i \in 1..Len(returned) : returned[i] = Ph(i)
    /\ \A i, j \in 1..Len(returned) : i # j => returned[i] # returned[j]

\* A bind call leaves every entry stored before it as it was
NoOverwrite == \A name \in DOMAIN values : name \in DOMAIN values' /\ values'[name] = values[name]

\* C2 (placeholder uniqueness): after any sequence of bind calls on one
\* instance the binding's keys are exactly v1..vn, n being the counter and the
\* number of values stored; the placeholders come back numbered 1, 2, 3, ... in
\* the order of the calls, so each is above all before it and no two are the
\* same even for identical values; and no call overwrites an existing entry.
C2_PlaceholderUniqueness ==
    /\ [](KeysAreOneToCounter /\ ReturnedInIncreasingOrder)
    /\ [][NoOverwrite]_vars

\* Three binds, two of them of the identical value, under three placeholders
C2_Witness ==
    /\ valcnt = 3
    /\ values["v1"] = C_a /\ values["v2"] = C_a /\ values["v3"] = C_b
    /\ returned = <<Ph(1), Ph(2), Ph(3)>>

-----------------------------------------------------------------------------
(* Properties of one compilation (Spec)                                    *)

\* The scalar literals of a value: itself, or the elements of a list
Atoms(v) == IF IsList(v) THEN {v.v[i] : i \in 1..Len(v.v)} ELSE {v}

\* The literal values a predicate tree carries (attribute and column names,
\* operator tags and the contains/icontains selector are not literal values)
RECURSIVE Literals(_)
Literals(e) ==
    IF e = NoneV THEN {}
    ELSE IF e.op \in {EXP_AND, EXP_OR, EXP_NOT} THEN UNION {Literals(e.args[i]) : i \in 1..Len(e.args)}
    ELSE IF e.op = ASSOP_ASSOCIATED THEN UNION {Atoms(e.args[i]) : i \in 1..3} \cup Literals(e.args[5])
    ELSE IF e.op \in {XOP_KEYWORD, XOP_ALTID} THEN UNION {Atoms(e.args[i]) : i \in 1..Len(e.args)}
    ELSE IF e.op = XOP_ALLMATCH THEN Atoms(e.args[1])
    ELSE IF e.op = GOP_DISTANCE THEN UNION {Atoms(e.args[i]) : i \in 2..4}
    ELSE IF e.op \in {ASSOP_DESCEND_O, ASSOP_DESCEND_S} THEN UNION {Atoms(e.args[i]) : i \in 1..Len(e.args)}
    ELSE UNION {Atoms(e.args[i]) : i \in 2..Len(e.args)}

\* The literal as it would stand in SQL text
Verbatim(l) == Inline(PyStr(l))

\* C1 (injection safety): in the compiled where-clause no literal value of the
\* predicate stands verbatim in the SQL text, and every placeholder the text
\* names is a key of the binding.
C1_InjectionSafety ==
    (Built /\ query.where # NoneV) =>
        /\ \A l \in Literals(query.where) : l # NoneV =>
              \A i \in 1..Len(where) : where[i] # Verbatim(l)
        /\ \A n \in 1..(Len(where) + valcnt) :
              (\E i \in 1..Len(where) : where[i] = Ph(n)) => ValName(n) \in DOMAIN values

\* The where-predicate is a comparison with an operator of the catalog
ComparisonOps == {OP_EQ, OP_NEQ, OP_LT, OP_LTE, OP_GT, OP_GTE, OP_LIKE, OP_ILIKE, OP_FUZZY, OP_REGEX, OP_IREGEX}
IsComparison == HasWhere /\ WhereOp \in ComparisonOps /\ Len(WhereArgs) = 2

\* A whitelisted comparison: <attr><OP><placeholder>, one placeholder bound
\* to the value
DirectComparison(value) ==
    /\ Built
    /\ Render(where) = Verbatim(WhereArgs[1]) \o OP_STR[WhereOp] \o Ph(1)
    /\ valcnt = 1
    /\ values = Binding(<<value>>)

\* A document-embedded comparison: json_string(doc,<p1>)<OP><p2>, p1 bound to
\* the attribute name and p2 to the value
DocumentComparison(value) ==
    /\ Built
    /\ Render(where) = "json_string(doc," \o Ph(1) \o ")" \o OP_STR[WhereOp] \o Ph(2)
    /\ valcnt = 2
    /\ values = Binding(<<WhereArgs[1], value>>)

\* C3 as stated: the document-embedded form binds p2 to the literal value.
C3_AsStated ==
    (IsComparison /\ KnownProfile) =>
        IF WhereArgs[1] \in Whitelist
        THEN DirectComparison(Resolved(WhereArgs[2]))
        ELSE DocumentComparison(Resolved(WhereArgs[2]))

\* C3 (column routing): for every comparison operator of the catalog and every
\* known profile, a comparison over a whitelisted attribute compiles to
\* <attr><OP><placeholder> with one placeholder bound to the literal value, and
\* over any other attribute to json_string(doc,<p1>)<OP><p2> with p1 bound to
\* the attribute name and p2 to the text str(value) of the literal value.
C3_ColumnRouting ==
    (IsComparison /\ KnownProfile) =>
        IF WhereArgs[1] \in Whitelist
        THEN DirectComparison(Resolved(WhereArgs[2]))
        ELSE DocumentComparison(Text(Resolved(WhereArgs[2])))

\* A document-embedded comparison with an int literal, bound as its text
C3_Witness ==
    /\ IsComparison /\ Built /\ Profile = DS_PROFILE_RESOURCES
    /\ WhereArgs = <<C_custom, IntV(1)>>
    /\ Render(where) = "json_string(doc,%(v1)s)=%(v2)s"
    /\ values = Binding(<<C_custom, Str(<<"1">>)>>)

\* The where-predicate is a membership over an attribute and N values
IsMembership == HasWhere /\ WhereOp = XOP_IN /\ Len(WhereArgs) >= 1
InValues == Tail(WhereArgs)

\* Each value of vals as the binder is to hold it
Each(vals, Held(_)) == [i \in 1..Len(vals) |-> Held(Resolved(vals[i]))]
Itself(v) == v

\* A membership over a standard column: N comma-joined placeholders, bound to
\* the values in input order
DirectMembership ==
    /\ Built
    /\ Render(where) = Verbatim(WhereArgs[1]) \o " IN (" \o Render(PhList(1, Len(InValues))) \o ")"
    /\ valcnt = Len(InValues)
    /\ values = Binding(Each(InValues, Itself))

\* A membership over a document-embedded attribute: the placeholder of the
\* attribute path stands before the IN list and is numbered after it
DocumentMembership(Held(_)) ==
    /\ Built
    /\ Render(where) = "json_string(doc," \o Ph(Len(InValues) + 1) \o ") IN ("
                       \o Render(PhList(1, Len(InValues))) \o ")"
    /\ valcnt = Len(InValues) + 1
    /\ values = Binding(Each(InValues, Held) \o <<WhereArgs[1]>>)

\* C4 as stated: every placeholder of the IN list is bound to the value itself.
C4_AsStated ==
    (IsMembership /\ KnownProfile) =>
        IF WhereArgs[1] \in Whitelist THEN DirectMembership ELSE DocumentMembership(Itself)

\* C4 (IN cardinality): a membership over an attribute and N values emits
\* exactly N comma-joined placeholders inside IN (...), in input order: bound to
\* the values themselves over a standard column, and to the text str(value) of
\* each value over a document-embedded attribute, where one more placeholder,
\* bound to the attribute name after the values, stands before the IN list.
C4_InCardinality ==
    (IsMembership /\ KnownProfile) =>
        IF WhereArgs[1] \in Whitelist THEN DirectMembership ELSE DocumentMembership(Text)

\* A document-embedded membership over three values, one of them an int
C4_Witness ==
    /\ IsMembership /\ Built /\ Profile = DS_PROFILE_RESOURCES
    /\ WhereArgs = <<C_custom, C_a, IntV(1), C_a>>
    /\ Render(where) = "json_string(doc,%(v4)s) IN (%(v1)s,%(v2)s,%(v3)s)"
    /\ values = Binding(<<C_a, Str(<<"1">>), C_a, C_custom>>)

\* The where-predicate is a between over an attribute and two bounds
IsBetween == HasWhere /\ WhereOp = XOP_BETWEEN /\ Len(WhereArgs) = 3

\* A literal of the where-predicate is a template reference
HasTemplateRef == \E i \in 2..Len(WhereArgs) : IsTemplateRef(WhereArgs[i])
Substituting ==
    /\ IsComparison \/ IsMembership \/ IsBetween
    /\ KnownProfile /\ HasParams /\ HasTemplateRef

\* The values bound by a comparison, membership or between, in the order of
\* their placeholders; Held is what a document-embedded comparison or
\* membership holds for a value
BoundValues(Held(_)) ==
    IF IsComparison
    THEN IF WhereArgs[1] \in Whitelist
         THEN <<Resolved(WhereArgs[2])>>
         ELSE <<WhereArgs[1], Held(Resolved(WhereArgs[2]))>>
    ELSE IF IsMembership
    THEN IF WhereArgs[1] \in Whitelist
         THEN Each(InValues, Itself)
         ELSE Each(InValues, Held) \o <<WhereArgs[1]>>
    ELSE IF WhereArgs[1] \in Whitelist
         THEN <<Resolved(WhereArgs[2]), Resolved(WhereArgs[3])>>
         ELSE <<WhereArgs[1], Resolved(WhereArgs[2]), Resolved(WhereArgs[3])>>

\* C9 as stated: the value bound is the resolved value in every form.
C9_AsStated == Substituting => (Built /\ values = Binding(BoundValues(Itself)))

\* C9 (missing template parameter): with a non-empty query_params supplied, a
\* template reference $(name) never makes the compilation fail; it resolves to
\* query_params[name], or to the null value when the name is absent, and that
\* value is what is bound by comparison and membership over a standard column
\* and by between over any attribute, while comparison and membership over a
\* document-embedded attribute bind its text str(value) ('None' when absent).
C9_MissingParamIsNull == Substituting => (Built /\ values = Binding(BoundValues(Text)))

\* A reference to an absent name: null in a between, 'None' in a
\* document-embedded comparison
C9_Witness ==
    /\ Substituting /\ Built
    /\ \/ WhereArgs = <<C_custom, RefQ, RefN>> /\ IsBetween
             /\ values = Binding(<<C_custom, NoneV, IntV(7)>>)
       \/ WhereArgs = <<C_custom, RefQ>> /\ IsComparison
             /\ values = Binding(<<C_custom, Str(<<"N", "o", "n", "e">>)>>)

\* The where-predicate is an AND or an OR over children
IsGroup == HasWhere /\ WhereOp \in {EXP_AND, EXP_OR} /\ Len(WhereArgs) >= 1
Keyword == IF WhereOp = EXP_AND THEN " AND " ELSE " OR "

\* The i-th child compiled alone, as the where-predicate of the same QuerySpec
ChildAlone(i) == __init__([query EXCEPT !.where = WhereArgs[i]], BT_res)
ChildrenCompile == \A i \in 1..Len(WhereArgs) : ChildAlone(i).err = ""

\* The placeholders bound by the children before the i-th
RECURSIVE Offset(_)
Offset(i) == IF i = 1 THEN 0 ELSE Offset(i - 1) + ChildAlone(i - 1).cnt

\* A fragment with its placeholders renumbered by k
Shift(sql, k) ==
    [i \in 1..Len(sql) |->
        IF \E n \in 1..Len(sql) : sql[i] = Ph(n)
        THEN Ph(k + CHOOSE n \in 1..Len(sql) : sql[i] = Ph(n))
        ELSE sql[i]]

\* The fragment of the i-th child within the group
Fragment(i) == Render(Shift(ChildAlone(i).where, Offset(i)))

\* The fragments from the i-th on, each between open and close, joined by the
\* keyword
RECURSIVE FragmentsFrom(_, _, _)
FragmentsFrom(i, open, close) ==
    IF i > Len(WhereArgs) THEN ""
    ELSE open \o Fragment(i) \o close
         \o (IF i < Len(WhereArgs) THEN Keyword ELSE "") \o FragmentsFrom(i + 1, open, close)

\* The children's values, under placeholders numbered in child order
ChildOrderBinding ==
    /\ valcnt = Offset(Len(WhereArgs) + 1)
    /\ DOMAIN values = {ValName(n) : n \in 1..valcnt}
    /\ \A i \in 1..Len(WhereArgs) : \A n \in 1..ChildAlone(i).cnt :
          values[ValName(Offset(i) + n)] = ChildAlone(i).vals[ValName(n)]

\* C5 as stated: each child's fragment stands in its own parentheses.
C5_AsStated ==
    (IsGroup /\ ChildrenCompile) =>
        (Built /\ Render(where) = FragmentsFrom(1, "(", ")") /\ ChildOrderBinding)

\* C5 (logical composition): compiling AND (respectively OR) over children
\* c1..cn yields the children's fragments joined by the keyword, the whole group
\* in one pair of parentheses, (f1 AND f2) for two children, with placeholders
\* numbered in child order.
C5_GroupParenthesized ==
    (IsGroup /\ ChildrenCompile) =>
        (Built /\ Render(where) = "(" \o FragmentsFrom(1, "", "") \o ")" /\ ChildOrderBinding)

\* An AND over a between and a comparison
C5_Witness ==
    /\ IsGroup /\ Built
    /\ query.where = Expr(EXP_AND, <<Expr(XOP_BETWEEN, <<S_name, C_a, C_b>>), Expr(OP_EQ, <<S_name, C_a>>)>>)
    /\ Render(where) = "(name BETWEEN %(v1)s AND %(v2)s AND name=%(v3)s)"
    /\ values = Binding(<<C_a, C_b, C_a>>)

\* The where-predicate is an associated-with that supplies a target together
\* with a target-type or a target-filter
IsAssociated == HasWhere /\ WhereOp = ASSOP_ASSOCIATED /\ Len(WhereArgs) = 5
Supplied(x) == x # NoneV /\ x.v # <<>>
ExclusiveArgsClash ==
    /\ IsAssociated
    /\ Supplied(WhereArgs[1])
    /\ Supplied(WhereArgs[2]) \/ WhereArgs[5] # NoneV

\* C10 (mutually exclusive traversal arguments): an associated-with that
\* supplies both target and target-type, or both target and target-filter,
\* fails with InvalidQuery whatever the direction argument is, and no SQL is
\* produced.
C10_ExclusiveArguments == ExclusiveArgsClash => Failed("BadRequest")

\* A clash compiled with no direction given
C10_Witness ==
    /\ ExclusiveArgsClash /\ Failed("BadRequest")
    /\ WhereArgs[4] = NoneV
    /\ WhereArgs[2] = NoneV /\ WhereArgs[5] # NoneV

\* The compiled QuerySpec names a profile that is not recognized
UnknownProfile == Compiled /\ ~KnownProfile

\* The tree has, below AND, OR and NOT nodes only, a comparison, membership or
\* between node: a node whose attribute is classified
RECURSIVE Classifies(_)
Classifies(e) ==
    IF e = NoneV THEN FALSE
    ELSE IF e.op \in {EXP_AND, EXP_OR, EXP_NOT} THEN \E i \in 1..Len(e.args) : Classifies(e.args[i])
    ELSE TagStartsWith(e.op, OP_PREFIX) \/ e.op \in {XOP_IN, XOP_BETWEEN}

SupportedTags ==
    DOMAIN OP_STR
    \cup {XOP_IN, XOP_BETWEEN, XOP_ALLMATCH, XOP_KEYWORD, XOP_ALTID, GOP_DISTANCE,
          EXP_AND, EXP_OR, EXP_NOT, ASSOP_ASSOCIATED, ASSOP_DESCEND_O, ASSOP_DESCEND_S}

\* The tree has, below AND, OR and NOT nodes, a node with an unsupported tag
RECURSIVE HasUnsupportedTag(_)
HasUnsupportedTag(e) ==
    IF e = NoneV THEN FALSE
    ELSE IF e.op \in {EXP_AND, EXP_OR, EXP_NOT} THEN \E i \in 1..Len(e.args) : HasUnsupportedTag(e.args[i])
    ELSE e.op \notin SupportedTags

\* C8 (unrecognized tag): compiling a predicate tree that holds a node whose
\* tag is not supported fails with InvalidQuery, also when the tag carries the
\* prefix of the comparison, range or geometry family.
C8_UnrecognizedTagRejected == (Compiled /\ HasUnsupportedTag(query.where)) => Failed("BadRequest")

-----------------------------------------------------------------------------
(* Reading a where-clause with the precedence of SQL: NOT over AND over OR *)

\* A token of the clause: "lp", "rp", "not", "and", "or", or an "atom" with
\* the pieces it is made of
Token(t, pieces) == [t |-> t, pieces |-> pieces]

\* The tokens of a structural piece
Structural(piece) ==
    CASE piece = "(" -> <<Token("lp", <<>>)>>
      [] piece = ")" -> <<Token("rp", <<>>)>>
      [] piece = "NOT (" -> <<Token("not", <<>>), Token("lp", <<>>)>>
      [] piece = "NOT " -> <<Token("not", <<>>)>>
      [] piece = " AND " -> <<Token("and", <<>>)>>
      [] OTHER -> <<Token("or", <<>>)>>

\* The tokens of the pieces sql; atom holds the pieces of the atom being
\* read, between tells that its BETWEEN still awaits its AND
RECURSIVE Tokens(_, _, _)
Tokens(sql, atom, between) ==
    IF sql = <<>> THEN (IF atom = <<>> THEN <<>> ELSE <<Token("atom", atom)>>)
    ELSE IF Head(sql) = " AND " /\ between
    THEN Tokens(Tail(sql), Append(atom, Head(sql)), FALSE)
    ELSE IF Head(sql) \in {"(", ")", "NOT (", "NOT ", " AND ", " OR "}
    THEN (IF atom = <<>> THEN <<>> ELSE <<Token("atom", atom)>>)
         \o Structural(Head(sql)) \o Tokens(Tail(sql), <<>>, FALSE)
    ELSE Tokens(Tail(sql), Append(atom, Head(sql)), between \/ Head(sql) = " BETWEEN ")

\* A boolean structure: an "and" or "or" over kids, a "not" over one kid, an
\* "atom" of some kind, or "error" for a clause that cannot be read
Node(n, kids) == [n |-> n, kids |-> kids, kind |-> ""]
Atom(kind) == [n |-> "atom", kids |-> <<>>, kind |-> kind]
Parsed(tree, rest) == [tree |-> tree, rest |-> rest]
Unreadable == Parsed(Node("error", <<>>), <<>>)

\* What an atom tests, read off its pieces
Has(pieces, piece) == \E i \in 1..Len(pieces) : pieces[i] = piece
AtomKind(pieces) ==
    IF Has(pieces, " BETWEEN ") THEN "between"
    ELSE IF Has(pieces, " <@ json_altids_id(") THEN "altid_id"
    ELSE IF Has(pieces, " <@ json_altids_ns(") THEN "altid_ns"
    ELSE IF Has(pieces, "json_altids_ns(") THEN "altid_any"
    ELSE IF \E op \in ComparisonOps : Has(pieces, OP_STR[op]) THEN "compare"
    ELSE "other"

RECURSIVE ParseOr(_)
RECURSIVE ParseAnd(_)
RECURSIVE ParseNot(_)
RECURSIVE OrRest(_, _)
RECURSIVE AndRest(_, _)

\* ( or ) or an atom
ParsePrimary(toks) ==
    LET Closed(inner) ==
            IF inner.rest # <<>> /\ Head(inner.rest).t = "rp"
            THEN Parsed(inner.tree, Tail(inner.rest)) ELSE Unreadable
    IN  IF toks = <<>> THEN Unreadable
        ELSE IF Head(toks).t = "lp" THEN Closed(ParseOr(Tail(toks)))
        ELSE IF Head(toks).t = "atom" THEN Parsed(Atom(AtomKind(Head(toks).pieces)), Tail(toks))
        ELSE Unreadable

\* NOT binds tighter than AND
ParseNot(toks) ==
    LET Negated(inner) == Parsed(Node("not", <<inner.tree>>), inner.rest)
    IN  IF toks # <<>> /\ Head(toks).t = "not" THEN Negated(ParseNot(Tail(toks)))
        ELSE ParsePrimary(toks)

\* AND binds tighter than OR
AndRest(kids, toks) ==
    LET More(nxt) == AndRest(Append(kids, nxt.tree), nxt.rest)
    IN  IF toks # <<>> /\ Head(toks).t = "and" THEN More(ParseNot(Tail(toks)))
        ELSE Parsed(IF Len(kids) = 1 THEN kids[1] ELSE Node("and", kids), toks)

ParseAnd(toks) ==
    LET First(r) == AndRest(<<r.tree>>, r.rest)
    IN  First(ParseNot(toks))

OrRest(kids, toks) ==
    LET More(nxt) == OrRest(Append(kids, nxt.tree), nxt.rest)
    IN  IF toks # <<>> /\ Head(toks).t = "or" THEN More(ParseAnd(Tail(toks)))
        ELSE Parsed(IF Len(kids) = 1 THEN kids[1] ELSE Node("or", kids), toks)

ParseOr(toks) ==
    LET First(r) == OrRest(<<r.tree>>, r.rest)
    IN  First(ParseAnd(toks))

\* The boolean structure a clause has under SQL precedence
Parse(sql) ==
    LET Whole(r) == IF r.rest = <<>> THEN r.tree ELSE Node("error", <<>>)
    IN  Whole(ParseOr(Tokens(sql, <<>>, FALSE)))

\* The sequences of seqs in one
RECURSIVE Concat(_)
Concat(seqs) == IF seqs = <<>> THEN <<>> ELSE Head(seqs) \o Concat(Tail(seqs))

\* A structure with nested groups of the same keyword merged and groups of
\* one kid replaced by the kid: equal normal forms are logically equivalent
RECURSIVE Normal(_)
Normal(t) ==
    LET Merged(kids) == IF Len(kids) = 1 THEN kids[1] ELSE Node(t.n, kids)
        Kids(k) == IF k.n = t.n THEN k.kids ELSE <<k>>
    IN  IF t.n \in {"atom", "error"} THEN t
        ELSE IF t.n = "not" THEN Node("not", <<Normal(t.kids[1])>>)
        ELSE Merged(Concat([i \in 1..Len(t.kids) |-> Kids(Normal(t.kids[i]))]))

\* The trees of AND, OR and NOT over comparisons and betweens on standard
\* columns and alternate-id lookups
RECURSIVE InTreeLanguage(_)
InTreeLanguage(e) ==
    /\ e # NoneV
    /\ IF e.op \in {EXP_AND, EXP_OR} THEN Len(e.args) >= 1 /\ \A i \in 1..Len(e.args) : InTreeLanguage(e.args[i])
       ELSE IF e.op = EXP_NOT THEN Len(e.args) = 1 /\ InTreeLanguage(e.args[1])
       ELSE \/ e.op \in ComparisonOps /\ Len(e.args) = 2 /\ e.args[1] \in Whitelist
            \/ e.op = XOP_BETWEEN /\ Len(e.args) = 3 /\ e.args[1] \in Whitelist
            \/ e.op = XOP_ALTID /\ Len(e.args) = 2

\* The boolean structure of a tree: an alternate-id lookup with both arguments
\* is the AND of its two tests, every other leaf is one atom
RECURSIVE Structure(_)
Structure(e) ==
    IF e.op = EXP_AND THEN Node("and", [i \in 1..Len(e.args) |-> Structure(e.args[i])])
    ELSE IF e.op = EXP_OR THEN Node("or", [i \in 1..Len(e.args) |-> Structure(e.args[i])])
    ELSE IF e.op = EXP_NOT THEN Node("not", <<Structure(e.args[1])>>)
    ELSE IF e.op = XOP_BETWEEN THEN Atom("between")
    ELSE IF e.op # XOP_ALTID THEN Atom("compare")
    ELSE IF Truthy(e.args[1]) /\ Truthy(e.args[2]) THEN Node("and", <<Atom("altid_id"), Atom("altid_ns")>>)
    ELSE IF Truthy(e.args[2]) THEN Atom("altid_id")
    ELSE IF Truthy(e.args[1]) THEN Atom("altid_ns")
    ELSE Atom("altid_any")

\* The AND and OR nodes of a tree, and its NOT nodes
RECURSIVE Groups(_)
Groups(e) ==
    IF e.op \notin {EXP_AND, EXP_OR, EXP_NOT} THEN 0
    ELSE (IF e.op = EXP_NOT THEN 0 ELSE 1)
         + (IF Len(e.args) >= 1 THEN Groups(e.args[1]) ELSE 0)
         + (IF Len(e.args) >= 2 THEN Groups(Expr(EXP_NOT, Tail(e.args))) ELSE 0)
RECURSIVE Negations(_)
Negations(e) ==
    IF e.op \notin {EXP_AND, EXP_OR, EXP_NOT} THEN 0
    ELSE (IF e.op = EXP_NOT THEN 1 ELSE 0)
         + (IF Len(e.args) >= 1 THEN Negations(e.args[1]) ELSE 0)
         + (IF Len(e.args) >= 2 THEN Negations(Expr(EXP_AND, Tail(e.args))) ELSE 0)

\* How often a piece occurs in a clause
Count(sql, piece) == Cardinality({i \in 1..Len(sql) : sql[i] = piece})

\* The where-predicate is G(G(p1, p2), p3), G one of AND and OR; the same
\* regrouped as G(p1, G(p2, p3)), compiled for the same QuerySpec
LeftNested ==
    /\ HasWhere /\ WhereOp \in {EXP_AND, EXP_OR} /\ Len(WhereArgs) = 2
    /\ WhereArgs[1].op = WhereOp /\ Len(WhereArgs[1].args) = 2
RightNested ==
    Expr(WhereOp, <<WhereArgs[1].args[1], Expr(WhereOp, <<WhereArgs[1].args[2], WhereArgs[2]>>)>>)
RightNestedWhere == __init__([query EXCEPT !.where = RightNested], BT_res).where

\* C6 (parenthesization invariance): for every tree of AND, OR and NOT over
\* leaf predicates, leaves with an AND of their own included, the compiled
\* clause read with SQL precedence has the boolean structure of the tree; every
\* AND/OR group, also of one child, and every negated fragment has its own pair
\* of parentheses; and G(G(p1,p2),p3) compiles to a clause logically equivalent
\* to that of G(p1,G(p2,p3)).
C6_ParenthesizationInvariance ==
    (Built /\ HasWhere /\ InTreeLanguage(query.where)) =>
        /\ Normal(Parse(where)) = Normal(Structure(query.where))
        /\ Count(where, "(") = Groups(query.where)
        /\ Count(where, "NOT (") = Negations(query.where)
        /\ Count(where, ")") = Groups(query.where) + Negations(query.where)
        /\ LeftNested => Normal(Parse(where)) = Normal(Parse(RightNestedWhere))

\* A left-nested AND whose inner group holds an alternate-id lookup with both
\* arguments, next to a between
C6_Witness ==
    /\ Built /\ LeftNested
    /\ query.where = Expr(EXP_AND, <<Expr(EXP_AND, <<Expr(OP_EQ, <<S_name, C_a>>), Expr(XOP_ALTID, <<C_a, C_b>>)>>),
                                     Expr(XOP_BETWEEN, <<S_name, C_a, C_b>>)>>)
    /\ Render(where) = "((name=%(v1)s AND %(v3)s <@ json_altids_id(doc) AND %(v2)s <@ json_altids_ns(doc))"
                       \o " AND name BETWEEN %(v4)s AND %(v5)s)"
    /\ Normal(Parse(where)) = Node("and", <<Atom("compare"), Atom("altid_id"), Atom("altid_ns"), Atom("between")>>)

-----------------------------------------------------------------------------
(* The kinds of failure                                                    *)

\* The direction an associated-with is compiled with: "A" when none is given
EffectiveDirection == IF Truthy(WhereArgs[4]) THEN WhereArgs[4] ELSE Str(<<"A">>)

\* The direction is at some level a character other than S and O
UnsupportedDirection ==
    /\ IsAssociated
    /\ \E i \in 1..PyLen(EffectiveDirection) : Index(EffectiveDirection, i - 1) \notin {Str(<<"S">>), Str(<<"O">>)}

\* C11 (failure kind): every compilation failure is of the InvalidQuery kind;
\* in particular an associated-with whose direction is at some level "A" (also
\* by default, when the direction is omitted or empty) or any character other
\* than S and O fails with an InvalidQuery error.
C11_FailuresAreInvalidQuery ==
    /\ phase = "failed" => error = "BadRequest"
    /\ UnsupportedDirection => Failed("BadRequest")

\* The QuerySpec of the state does not compile: __init__ raises
CompilationFails == Compiled /\ __init__(query, BT_res).err # ""

\* C12 (no partial SQL on failure): when the compilation of a QuerySpec raises,
\* at any point of the traversal, the caller holds no instance, and get_query
\* and get_values have returned nothing for it: no SQL string, no binding.
C12_NoPartialSql ==
    CompilationFails =>
        /\ phase = "failed"
        /\ NoInstance
        /\ sql_out = <<>>
        /\ values_out = <<>>

\* A failure in the target filter, after the target type was bound
C12_Witness ==
    /\ CompilationFails /\ Failed("BadRequest") /\ ~KnownProfile
    /\ query.where = Expr(ASSOP_ASSOCIATED, <<NoneV, C_b, NoneV, Str(<<"S">>), Expr(OP_EQ, <<S_name, C_a>>)>>)
    /\ __init__([query EXCEPT !.where.args[5] = NoneV], BT_res).cnt = 1

-----------------------------------------------------------------------------
(* The statement of the descend branch, run over an association table:     *)
(* WITH RECURSIVE ch_res AS (seed UNION ALL step) is evaluated as the seed *)
(* rows, then the step applied to the rows the evaluation before produced, *)
(* until an evaluation produces no row.                                    *)

MaxPath == 7        \* associations on a path of ch_res the model follows

\* The rows the association tables are made of
\* (the resources a and x are of type a, the resource b of type b)
TypeOfResource(id) == IF id = C_b THEN C_b ELSE C_a
Assoc(id, s, p, o) ==
    [id |-> id, s |-> s, st |-> TypeOfResource(s), p |-> p, o |-> o, ot |-> TypeOfResource(o)]
Assocs ==
    {Assoc("e1", C_a, C_x, C_b),
     Assoc("e2", C_b, C_x, C_a),
     Assoc("e3", C_a, C_x, C_a),
     Assoc("e4", C_b, C_a, C_b),
     Assoc("e5", C_b, C_x, C_x)}
AssocTables == SUBSET Assocs

\* The descend predicates whose statement is run
ClosureInputs ==
    {[q |-> PlainQuery(Context(DS_PROFILE_RESOURCES, S_empty, TRUE), Expr(op, <<C_a, tt, pr, IntV(d)>>)),
      bt |-> bt] :
        op \in {ASSOP_DESCEND_O, ASSOP_DESCEND_S}, tt \in {NoneV, C_a}, pr \in {NoneV, C_x},
        d \in {0, 1, 2}, bt \in {BT_res, BT_res_assoc}}

\* The index of the first piece p of sql, 0 when sql has none
IndexOf(sql, p) ==
    IF \E i \in 1..Len(sql) : sql[i] = p
    THEN CHOOSE i \in 1..Len(sql) : sql[i] = p /\ \A j \in 1..(i - 1) : sql[j] # p
    ELSE 0

\* The piece that follows the first piece p of sql
After(sql, p) == sql[IndexOf(sql, p) + 1]

\* The value the binding vals holds for the placeholder ph
BoundTo(ph, vals) == vals[CHOOSE name \in DOMAIN vals : Placeholder(name) = ph]

\* The values of the placeholders listed from the i-th piece to the closing
\* parenthesis
RECURSIVE ListedValues(_, _, _)
ListedValues(sql, i, vals) ==
    IF sql[i] = ")" THEN {}
    ELSE (IF sql[i] = "," THEN {} ELSE {BoundTo(sql[i], vals)}) \cup ListedValues(sql, i + 1, vals)

\* <col> IN (...) of the clause opened by the piece open: row value v passes
\* when the statement has no such clause
InFilter(sql, vals, open, v) ==
    IndexOf(sql, open) > 0 => v \in ListedValues(sql, IndexOf(sql, open) + 1, vals)

\* <aatt>t IN (...): the type column of the row e passes when the statement
\* has no such clause
TypeFilter(sql, vals, e) ==
    IndexOf(sql, "t IN (") > 0 =>
        e[sql[IndexOf(sql, "t IN (") - 1] \o "t"] \in ListedValues(sql, IndexOf(sql, "t IN (") + 1, vals)

\* The seed: SELECT <aatt>, ARRAY[id::text], 1, false FROM <assoc_table>
\* WHERE <idatt>=<anchor> [AND p IN (...)] [AND <aatt>t IN (...)]
SeedRows(sql, vals, table) ==
    {[chid |-> e[After(sql, "SELECT ")], path |-> <<e.id>>, depth |-> 1, cycle |-> FALSE] :
        e \in {e \in table : /\ e[After(sql, " WHERE ")] = BoundTo(After(sql, "="), vals)
                             /\ InFilter(sql, vals, " AND p IN (", e.p)
                             /\ TypeFilter(sql, vals, e)}}

\* A plausible defect: the step lets a row of depth max_depth through.
DepthBoundInclusive(sql, vals, ch) ==
    IndexOf(sql, " AND ch.depth<") > 0 => ch.depth <= BoundTo(After(sql, " AND ch.depth<"), vals).v

\* A plausible defect: the step does not look at the cycle flag.
RecursiveStepUngated(sql, ch) == TRUE

\* AND NOT ch.cycle of the step
RecursiveStepGate(sql, ch) == IndexOf(sql, " = ch.chid AND NOT ch.cycle") > 0 => ~ch.cycle

\* AND ch.depth<<max_depth> of the step, when the statement has it
DepthBound(sql, vals, ch) ==
    IndexOf(sql, " AND ch.depth<") > 0 => ch.depth < BoundTo(After(sql, " AND ch.depth<"), vals).v

\* The elements of a path
InPath(id, path) == \E i \in 1..Len(path) : path[i] = id

\* The step: SELECT ass.<aatt>, ARRAY[ass.id::text] || ch.path, ch.depth + 1,
\* ass.id=ANY(ch.path) FROM ch_res ch, <assoc_table> ass WHERE
\* ass.<idatt> = ch.chid AND NOT ch.cycle [AND ch.depth<...] [AND ass.p IN (...)]
\* [AND <aatt>t IN (...)]
RecursiveRows(sql, vals, table, rows) ==
    {[chid |-> x[2][After(sql, "SELECT ass.")], path |-> <<x[2].id>> \o x[1].path,
      depth |-> x[1].depth + 1, cycle |-> InPath(x[2].id, x[1].path)] :
        x \in {y \in rows \X table :
                /\ y[2][After(sql, " WHERE ass.")] = y[1].chid
                /\ RecursiveStepGate(sql, y[1])
                /\ DepthBound(sql, vals, y[1])
                /\ InFilter(sql, vals, " AND ass.p IN (", y[2].p)
                /\ TypeFilter(sql, vals, y[2])}}

\* A plausible defect: the outer query selects the last element of the path.
OuterSelectLast(sql, rows) ==
    IF IndexOf(sql, ") SELECT path[1] FROM ch_res)") > 0
    THEN {r.path[Len(r.path)] : r \in rows}
    ELSE {r.chid : r \in rows}

\* The outer query: SELECT path[1] FROM ch_res, or SELECT chid FROM ch_res
OuterSelect(sql, rows) ==
    IF IndexOf(sql, ") SELECT path[1] FROM ch_res)") > 0
    THEN {r.path[1] : r \in rows}
    ELSE {r.chid : r \in rows}

\* The instance __init__ leaves behind for r
Holds(r) ==
    /\ basetable = r.basetable
    /\ from_tables = r.from_tables
    /\ table_aliases = r.table_aliases
    /\ cols = r.cols
    /\ where = r.where
    /\ order_by = r.order_by
    /\ group_by = r.group_by
    /\ having = r.having
    /\ valcnt = r.cnt
    /\ values = r.vals

\* A descend predicate is compiled, and a table is there to run it over
InitClosure ==
    /\ phase = "built"
    /\ error = ""
    /\ \E i \in ClosureInputs : query = i.q /\ Holds(__init__(i.q, i.bt))
    /\ sql_out = <<>>
    /\ values_out = <<>>
    /\ returned = <<>>
    /\ assoc \in AssocTables
    /\ exec = "idle"
    /\ working = {}
    /\ ch_res = {}
    /\ insts = NoInstances

instance == <<phase, query, basetable, from_tables, table_aliases, cols, where, order_by,
              group_by, having, valcnt, values, error, sql_out, values_out, returned>>

\* The seed is evaluated
Seed ==
    /\ exec = "idle"
    /\ exec' = "running"
    /\ working' = SeedRows(where, values, assoc)
    /\ ch_res' = working'
    /\ UNCHANGED <<instance, assoc, insts>>

\* The step is evaluated over the rows of the evaluation before
Recurse ==
    /\ exec = "running"
    /\ working # {}
    /\ \A ch \in working : Len(ch.path) < MaxPath
    /\ working' = RecursiveRows(where, values, assoc, working)
    /\ ch_res' = ch_res \cup working'
    /\ UNCHANGED <<instance, assoc, exec, insts>>

\* The evaluation before produced no row: the statement is done
Finish ==
    /\ exec = "running"
    /\ working = {}
    /\ exec' = "done"
    /\ UNCHANGED <<instance, assoc, working, ch_res, insts>>

NextClosure == Seed \/ Recurse \/ Finish

\* The database keeps evaluating the statement
SpecClosure == InitClosure /\ [][NextClosure]_vars /\ WF_vars(NextClosure)

\* C13 (cycle termination): the recursive query of a compiled descend
\* predicate, run over any finite association table, also one with cycles and
\* with max depth 0, comes to an end with a finite result; and a row whose
\* cycle flag is true is never extended by the recursive step.
C13_CycleTermination ==
    /\ <>(exec = "done")
    /\ [](\A r \in ch_res : Len(r.path) > 1 =>
             \E ch \in ch_res : ch.path = Tail(r.path) /\ ~ch.cycle)

\* The closure over a -> b -> a with max depth 0 is done, its cycle flagged
C13_Witness ==
    /\ exec = "done"
    /\ WhereOp = ASSOP_DESCEND_O /\ WhereArgs[4] = IntV(0)
    /\ {e.id : e \in assoc} = {"e1", "e2"}
    /\ ch_res = {[chid |-> C_b, path |-> <<"e1">>, depth |-> 1, cycle |-> FALSE],
                 [chid |-> C_a, path |-> <<"e2", "e1">>, depth |-> 2, cycle |-> FALSE],
                 [chid |-> C_b, path |-> <<"e1", "e2", "e1">>, depth |-> 3, cycle |-> TRUE]}

-----------------------------------------------------------------------------
(* The placeholders of the descend branch                                  *)

\* The where-predicate is a descend with an anchor, a predicate set and a
\* positive max depth, and no target type
IsDescend == HasWhere /\ WhereOp \in {ASSOP_DESCEND_O, ASSOP_DESCEND_S} /\ Len(WhereArgs) = 4
DescendPredicates == IF IsList(WhereArgs[3]) THEN WhereArgs[3].v ELSE <<WhereArgs[3]>>
AnchoredDescend ==
    /\ IsDescend
    /\ Truthy(WhereArgs[3])
    /\ ~Truthy(WhereArgs[2])
    /\ WhereArgs[4].k = "int" /\ WhereArgs[4].v > 0

\* The column the seed step compares with the anchor
SubjectCol == IF WhereOp = ASSOP_DESCEND_O THEN "s" ELSE "o"

\* The pieces of sql from the first piece p on, n of them
From(sql, p, n) == SubSeq(sql, IndexOf(sql, p), IndexOf(sql, p) + n - 1)

\* The seed step compares with the placeholder numbered anchor and lists the
\* predicate placeholders from first on; the recursive step is gated by NOT
\* cycle and bounded by the placeholder numbered depth
DescendReads(anchor, first, depth) ==
    /\ From(where, " WHERE ", 5 + 2 * Len(DescendPredicates))
         = <<" WHERE ", SubjectCol, "=", Ph(anchor), " AND p IN (">>
           \o PhList(first, Len(DescendPredicates)) \o <<")">>
    /\ From(where, " WHERE ass.", 5)
         = <<" WHERE ass.", SubjectCol, " = ch.chid AND NOT ch.cycle", " AND ch.depth<", Ph(depth)>>

\* C14 as stated: the anchor is numbered first, the predicates next, the max
\* depth last.
C14_AsStated ==
    AnchoredDescend =>
        /\ Built
        /\ DescendReads(1, 2, Len(DescendPredicates) + 2)
        /\ values = Binding(<<Resolved(WhereArgs[1])>> \o Each(DescendPredicates, Itself) \o <<WhereArgs[4]>>)

\* C14 (descendant-closure placeholder order): compiling a descend predicate
\* with an anchor id, a set of k predicates and a positive max depth binds the
\* predicate values to the lowest-numbered placeholders, the anchor id to the
\* next one and the max depth to the last, so that the seed step reads
\* <subject-col>=%(v2)s AND p IN (%(v1)s) and the recursive step adds
\* AND NOT ch.cycle AND ch.depth<%(v3)s for a single predicate.
C14_DescendPlaceholderOrder ==
    AnchoredDescend =>
        /\ Built
        /\ DescendReads(Len(DescendPredicates) + 1, 1, Len(DescendPredicates) + 2)
        /\ values = Binding(Each(DescendPredicates, Itself) \o <<Resolved(WhereArgs[1]), WhereArgs[4]>>)

\* An object-descend from a with the single predicate x and max depth 3
C14_Witness ==
    /\ AnchoredDescend /\ Built /\ basetable = BT_res
    /\ WhereOp = ASSOP_DESCEND_O
    /\ WhereArgs = <<C_a, NoneV, C_x, IntV(3)>>
    /\ values = Binding(<<C_x, C_a, IntV(3)>>)
    /\ Render(where) = "id IN (WITH RECURSIVE ch_res(chid, path, depth, cycle) AS ("
         \o "SELECT o, ARRAY[id::text], 1, false FROM res_assoc WHERE s=%(v2)s AND p IN (%(v1)s)"
         \o " UNION ALL SELECT ass.o, ARRAY[ass.id::text] || ch.path, ch.depth + 1, ass.id=ANY(ch.path)"
         \o " FROM ch_res ch, res_assoc ass WHERE ass.s = ch.chid AND NOT ch.cycle AND ch.depth<%(v3)s"
         \o " AND ass.p IN (%(v1)s)) SELECT chid FROM ch_res)"

-----------------------------------------------------------------------------
(* The statement get_query assembles                                       *)

\* get_query has returned the statement of the instance
Assembled == Built /\ sql_out # <<>>

\* The limit and skip values of the QuerySpec
Limit == Get(query.query_args, "limit", 0)
Skip == Get(query.query_args, "skip", 0)

\* The keywords of the clauses, in the order of the statement
ClauseOrder ==
    <<"SELECT ", " FROM ", " WHERE ", " GROUP BY ", " HAVING ", " ORDER BY ", " LIMIT ", " OFFSET ">>

\* The clause of keyword kw is emitted; it reads frag; the pieces it takes
Emitted(kw) == IndexOf(sql_out, kw) > 0
Reads(kw, frag) ==
    Emitted(kw) => SubSeq(sql_out, IndexOf(sql_out, kw) + 1, IndexOf(sql_out, kw) + Len(frag)) = frag
Takes(kw, frag) == IF Emitted(kw) THEN 1 + Len(frag) ELSE 0

\* C15 (statement assembly): get_query emits the clauses in the fixed order
\* SELECT, FROM, WHERE, GROUP BY, HAVING, ORDER BY, LIMIT, OFFSET; WHERE,
\* GROUP BY and ORDER BY are emitted exactly when their fragment is not empty,
\* HAVING exactly when GROUP BY is emitted and the having fragment is not
\* empty, LIMIT n (OFFSET n) exactly when the limit (skip) value is strictly
\* positive; each clause reads its fragment and the statement holds no more.
C15_StatementAssembly ==
    Assembled =>
        /\ \A i, j \in 1..Len(ClauseOrder) :
              (i < j /\ Emitted(ClauseOrder[i]) /\ Emitted(ClauseOrder[j]))
                  => IndexOf(sql_out, ClauseOrder[i]) < IndexOf(sql_out, ClauseOrder[j])
        /\ IndexOf(sql_out, "SELECT ") = 1
        /\ Emitted(" FROM ")
        /\ Emitted(" WHERE ") <=> Render(where) # ""
        /\ Emitted(" GROUP BY ") <=> Render(group_by) # ""
        /\ Emitted(" HAVING ") <=> (Emitted(" GROUP BY ") /\ Render(having) # "")
        /\ Emitted(" ORDER BY ") <=> Render(order_by) # ""
        /\ Emitted(" LIMIT ") <=> Limit > 0
        /\ Emitted(" OFFSET ") <=> Skip > 0
        /\ Reads(" FROM ", from_tables)
        /\ Reads(" WHERE ", where)
        /\ Reads(" GROUP BY ", group_by)
        /\ Reads(" HAVING ", having)
        /\ Reads(" ORDER BY ", order_by)
        /\ Reads(" LIMIT ", <<Inline(IntChars(Limit))>>)
        /\ Reads(" OFFSET ", <<Inline(IntChars(Skip))>>)
        /\ Len(sql_out) = IndexOf(sql_out, " FROM ") - 1
                          + Takes(" FROM ", from_tables) + Takes(" WHERE ", where)
                          + Takes(" GROUP BY ", group_by) + Takes(" HAVING ", having)
                          + Takes(" ORDER BY ", order_by) + Takes(" LIMIT ", <<"n">>)
                          + Takes(" OFFSET ", <<"n">>)

\* A statement with all eight clauses
C15_Witness ==
    /\ Assembled
    /\ Render(sql_out) = "SELECT base.id FROM res AS base WHERE name=%(v1)s GROUP BY name"
                         \o " HAVING count(*)>1 ORDER BY name DESC LIMIT 5 OFFSET 2"

-----------------------------------------------------------------------------
(* Two instances compiled side by side: each _value call of a compilation  *)
(* is a step of its own, and the steps of the two instances interleave.    *)

\* The QuerySpecs the two instances compile
PairInputs ==
    {[q |-> PlainQuery(Context(DS_PROFILE_RESOURCES, S_empty, TRUE), w), bt |-> BT_res] :
        w \in {Expr(OP_EQ, <<S_name, RefP>>),
               Expr(XOP_IN, <<C_custom, C_a, IntV(1)>>),
               Expr(EXP_AND, <<Expr(XOP_BETWEEN, <<S_name, C_a, C_b>>), Expr(OP_EQ, <<S_name, C_a>>)>>),
               Expr(BogusOp, <<S_name, C_a>>)}}

\* A plausible defect: _valcnt is an attribute of the class, advanced by
\* every instance.
BinderOfClass(all, i) ==
    [cnt |-> IF all[3 - i].phase = "compiling" /\ all[3 - i].cnt > all[i].cnt
             THEN all[3 - i].cnt ELSE all[i].cnt,
     vals |-> all[i].vals]

\* self._valcnt and self.values: the attributes of the instance itself
BinderOf(all, i) == [cnt |-> all[i].cnt, vals |-> all[i].vals]

\* The values a compilation binds, in the order of its _value calls
BindsOf(r) == IF r.err # "" THEN <<>> ELSE [n \in 1..r.cnt |-> r.vals[ValName(n)]]

\* The fragment sql with its k-th placeholder replaced by the k-th
\* placeholder the _value calls returned
Rebind(sql, phs) ==
    [n \in 1..Len(sql) |->
        IF \E k \in 1..Len(phs) : sql[n] = Ph(k)
        THEN phs[CHOOSE k \in 1..Len(phs) : sql[n] = Ph(k)]
        ELSE sql[n]]

InitPair ==
    /\ phase = "none"
    /\ query = NoneV
    /\ NoInstance
    /\ error = ""
    /\ sql_out = <<>>
    /\ values_out = <<>>
    /\ returned = <<>>
    /\ NoOutside

\* PostgresQueryBuilder(query, basetable) begins: the attributes are set
Begin(i, q, bt) ==
    /\ insts[i].phase = "none"
    /\ insts' = [insts EXCEPT ![i] = [phase |-> "compiling", q |-> q, bt |-> bt, cnt |-> 0, vals |-> <<>>,
                                      pending |-> BindsOf(__init__(q, bt)), returned |-> <<>>]]
    /\ UNCHANGED <<instance, assoc, exec, working, ch_res>>

\* One _value call of the compilation of instance i
Stored(i, r) ==
    insts' = [insts EXCEPT ![i].cnt = r.cnt, ![i].vals = r.vals,
                           ![i].pending = Tail(@), ![i].returned = @ \o r.sql]
Bind(i) ==
    /\ insts[i].phase = "compiling"
    /\ insts[i].pending # <<>>
    /\ Stored(i, StoreValue(BinderOf(insts, i), Head(insts[i].pending)))
    /\ UNCHANGED <<instance, assoc, exec, working, ch_res>>

\* __init__ of instance i returns, or raises
Ended(i, r) ==
    insts' = [insts EXCEPT ![i] =
                 IF r.err # ""
                 THEN [phase |-> "failed", q |-> insts[i].q, bt |-> insts[i].bt, err |-> r.err]
                 ELSE [phase |-> "built", q |-> insts[i].q, bt |-> insts[i].bt, cnt |-> insts[i].cnt,
                       vals |-> insts[i].vals, where |-> Rebind(r.where, insts[i].returned)]]
End(i) ==
    /\ insts[i].phase = "compiling"
    /\ insts[i].pending = <<>>
    /\ Ended(i, __init__(insts[i].q, insts[i].bt))
    /\ UNCHANGED <<instance, assoc, exec, working, ch_res>>

NextPair ==
    \E i \in {1, 2} :
        \/ \E x \in PairInputs : Begin(i, x.q, x.bt)
        \/ Bind(i)
        \/ End(i)

SpecPair == InitPair /\ [][NextPair]_vars

\* What instance i produces when it is compiled alone
Alone(i) == __init__(insts[i].q, insts[i].bt)

\* Instance i is where the compilation alone is after as many _value calls
AsAlone(i, alone) ==
    CASE insts[i].phase = "compiling" ->
            /\ DOMAIN insts[i].vals = {ValName(n) : n \in 1..insts[i].cnt}
            /\ \A n \in 1..insts[i].cnt : insts[i].vals[ValName(n)] = BindsOf(alone)[n]
            /\ insts[i].returned = [n \in 1..insts[i].cnt |-> Ph(n)]
      [] insts[i].phase = "built" ->
            /\ alone.err = ""
            /\ insts[i].where = alone.where
            /\ insts[i].cnt = alone.cnt
            /\ insts[i].vals = alone.vals
      [] insts[i].phase = "failed" -> alone.err = insts[i].err
      [] OTHER -> TRUE

\* A step touches one instance only, and never the QuerySpec of either
OneInstanceStep ==
    /\ insts'[1] = insts[1] \/ insts'[2] = insts[2]
    /\ \A i \in {1, 2} : insts[i].phase # "none" => insts'[i].q = insts[i].q

\* C16 (independent compilations): when two QuerySpecs, possibly the same one,
\* are compiled by two instances, under every interleaving of their steps each
\* instance produces exactly the SQL and the binding it produces when it runs
\* alone; a step of one instance leaves the counter and the value map of the
\* other as they are, and no step modifies a QuerySpec.
C16_IndependentCompilations ==
    /\ [](\A i \in {1, 2} : insts[i].phase # "none" => AsAlone(i, Alone(i)))
    /\ [][OneInstanceStep]_vars

\* Two instances compile the same membership: the second has made all its
\* _value calls and returned between the first and the second call of the first
C16_Witness ==
    /\ insts[1].phase = "compiling" /\ insts[2].phase = "built"
    /\ insts[1].q = insts[2].q
    /\ insts[1].q.where = Expr(XOP_IN, <<C_custom, C_a, IntV(1)>>)
    /\ insts[1].cnt = 1 /\ insts[1].returned = <<Ph(1)>> /\ Len(insts[1].pending) = 2
    /\ Render(insts[2].where) = "json_string(doc,%(v3)s) IN (%(v1)s,%(v2)s)"
    /\ insts[2].vals = Binding(<<C_a, Str(<<"1">>), C_custom>>)

-----------------------------------------------------------------------------
(* The whitelists of the column classifier                                 *)

\* The whitelist the profile and the sub-table of the QuerySpec put in force
ActiveWhitelist ==
    IF Profile = DS_PROFILE_RESOURCES /\ SubTable = Str(<<"a", "s", "s", "o", "c">>)
    THEN {Str(<<"i", "d">>), Str(<<"s">>), Str(<<"s", "t">>), Str(<<"p">>), Str(<<"o">>), Str(<<"o", "t">>)}
    ELSE IF Profile = DS_PROFILE_RESOURCES
    THEN {Str(<<"i", "d">>), Str(<<"t", "y", "p", "e", "_">>), Str(<<"n", "a", "m", "e">>),
          Str(<<"l", "c", "s", "t", "a", "t", "e">>),
          Str(<<"a", "v", "a", "i", "l", "a", "b", "i", "l", "i", "t", "y">>),
          Str(<<"t", "s", "_", "c", "r", "e", "a", "t", "e", "d">>),
          Str(<<"t", "s", "_", "u", "p", "d", "a", "t", "e", "d">>)}
    ELSE {Str(<<"i", "d">>), Str(<<"t", "y", "p", "e", "_">>), Str(<<"o", "r", "i", "g", "i", "n">>),
          Str(<<"o", "r", "i", "g", "i", "n", "_", "t", "y", "p", "e">>),
          Str(<<"s", "u", "b", "_", "t", "y", "p", "e">>), Str(<<"a", "c", "t", "o", "r", "_", "i", "d">>)}

\* The comparison was compiled as one over a standard column: the attribute
\* stands in the SQL text itself, and only the value is bound
ReadsColumn ==
    /\ Built
    /\ where = <<Verbatim(WhereArgs[1]), OP_STR[WhereOp], Ph(1)>>
    /\ valcnt = 1

\* The comparison was compiled as one over a document-embedded attribute: the
\* attribute name is bound, and reached through json_string over doc
ReadsDocument ==
    /\ Built
    /\ where = <<"json_string(", "doc,", Ph(1), ")", OP_STR[WhereOp], Ph(2)>>
    /\ values[ValName(1)] = WhereArgs[1]

\* C17 (column classifier whitelists): an attribute is classified as a
\* standard column exactly when it is in the active whitelist: with the
\* resource profile and the sub-table "assoc" {id, s, st, p, o, ot}, with the
\* resource profile otherwise {id, type_, name, lcstate, availability,
\* ts_created, ts_updated}, and with the event profile, whatever the sub-table,
\* {id, type_, origin, origin_type, sub_type, actor_id}.
C17_ClassifierWhitelists ==
    (IsComparison /\ KnownProfile) =>
        /\ ReadsColumn <=> WhereArgs[1] \in ActiveWhitelist
        /\ ReadsDocument <=> WhereArgs[1] \notin ActiveWhitelist

\* name is document-embedded in the association sub-table of the resources
C17_Witness ==
    /\ IsComparison /\ Built
    /\ Profile = DS_PROFILE_RESOURCES /\ SubTable = S_assoc
    /\ WhereArgs = <<S_name, C_a>>
    /\ Render(where) = "json_string(doc,%(v1)s)=%(v2)s"
    /\ values = Binding(<<S_name, C_a>>)

-----------------------------------------------------------------------------
(* The binder and sequences (SpecBinder)                                   *)

\* The call _value(value, flatten_list) on the instance as it stands
Call(value, flatten_list) == _value([cnt |-> valcnt, vals |-> values], value, flatten_list)

\* The call returned, for the values held, as many new placeholders joined by
\* commas, and bound them to the values in order next to what was bound before
Creates(r, held) ==
    /\ r.sql = PhList(valcnt + 1, Len(held))
    /\ r.cnt = valcnt + Len(held)
    /\ DOMAIN r.vals = DOMAIN values \cup {ValName(valcnt + n) : n \in 1..Len(held)}
    /\ \A n \in 1..Len(held) : r.vals[ValName(valcnt + n)] = held[n]
    /\ \A name \in DOMAIN values : r.vals[name] = values[name]

\* The elements of a sequence, an element that is a non-empty sequence
\* replaced by its own elements
RECURSIVE Elements(_)
Elements(l) ==
    IF l = <<>> THEN <<>>
    ELSE (IF IsList(Head(l)) /\ Head(l).v # <<>> THEN Elements(Head(l).v) ELSE <<Head(l)>>)
         \o Elements(Tail(l))

\* C18 as stated: a sequence of N elements is bound as N placeholders for
\* every N >= 0.
C18_AsStated ==
    [][\A value \in BindValues, flatten_list \in BOOLEAN :
          BindCall(value, flatten_list) =>
              Creates(Call(value, flatten_list),
                      IF IsList(value) /\ flatten_list THEN value.v ELSE <<value>>)]_vars

\* C18 (binder sequence handling): _value of a non-empty sequence of N
\* elements with the default flatten behaviour creates exactly N placeholders,
\* joined by commas and bound to the elements in order, an element that is
\* itself a non-empty sequence being flattened in its place; _value of an empty
\* sequence, of a sequence with "no flatten" and of a scalar creates exactly
\* one placeholder, bound to the whole value.
C18_BinderSequences ==
    [][\A value \in BindValues, flatten_list \in BOOLEAN :
          BindCall(value, flatten_list) =>
              Creates(Call(value, flatten_list),
                      IF IsList(value) /\ value.v # <<>> /\ flatten_list
                      THEN Elements(value.v) ELSE <<value>>)]_vars

\* An empty sequence bound as one placeholder, then a sequence of three
\* elements bound as three
C18_Witness ==
    /\ valcnt = 4
    /\ returned = <<Ph(1), Ph(2), Ph(3), Ph(4)>>
    /\ values = Binding(<<ListV(<<>>), C_a, IntV(1), C_b>>)

-----------------------------------------------------------------------------
(* When the substitution is skipped                                        *)

\* The where-predicate hands literals to the binder as they are resolved: a
\* comparison over a standard column, or a between
HandsLiterals ==
    /\ Built /\ KnownProfile
    /\ \/ IsComparison /\ WhereArgs[1] \in Whitelist
       \/ IsBetween

\* The value bound for the literal at position i of the where-predicate (a
\* document-embedded between binds the attribute path first)
BoundFor(i) == values[ValName(IF WhereArgs[1] \in Whitelist THEN i - 1 ELSE i)]

\* The entry of query_params for a template reference, null when there is none
Entry(v) ==
    IF RefName(v) \in DOMAIN query.query_params THEN query.query_params[RefName(v)] ELSE NoneV

\* C19 (substitution skip condition): a literal is passed to the binder
\* unchanged exactly when no query_params mapping was supplied with the
\* QuerySpec or the literal is not a template reference; whenever a mapping was
\* supplied, even an empty one, a template reference is resolved against it,
\* an absent name yielding null rather than the unchanged $(name) text.
C19_SubstitutionSkip ==
    HandsLiterals =>
        \A i \in 2..Len(WhereArgs) :
            IF ~ParamsSupplied \/ ~IsTemplateRef(WhereArgs[i])
            THEN BoundFor(i) = WhereArgs[i]
            ELSE BoundFor(i) = Entry(WhereArgs[i]) /\ BoundFor(i) # WhereArgs[i]

-----------------------------------------------------------------------------
(* Template references at every literal position                           *)

\* A template reference whose name has an entry in query_params
PresentRef(v) == IsTemplateRef(v) /\ RefName(v) \in DOMAIN query.query_params

\* The value is such a reference, or a sequence holding one
CarriesRef(v) == PresentRef(v) \/ (IsList(v) /\ \E i \in DOMAIN v.v : PresentRef(v.v[i]))

\* C20 (template references honoured at every literal position): for every
\* predicate tag, a literal given as a template reference whose name is present
\* in query_params is bound as the mapped value, not as the reference text: no
\* placeholder of a compiled statement is bound to the text of such a
\* reference, alone or inside a bound sequence.
C20_ReferencesHonoured ==
    (Built /\ HasParams) => \A name \in DOMAIN values : ~CarriesRef(values[name])

-----------------------------------------------------------------------------
(* The nesting of the associated-with branch                               *)

\* An associated-with over a direction string of S and O has compiled
Nested == IsAssociated /\ Built /\ ~UnsupportedDirection
Levels == PyLen(EffectiveDirection)

\* Level k: its alias, the column its sub-select returns, the far column it
\* constrains, and the column it is anchored on
Ak(k) == "A" \o ToString(k)
ReturnedCol(k) == IF Index(EffectiveDirection, k) = Str(<<"S">>) THEN "s" ELSE "o"
FarCol(k) == IF Index(EffectiveDirection, k) = Str(<<"S">>) THEN "o" ELSE "s"
AnchorCol(k) == IF k = 0 THEN "id" ELSE Ak(k - 1) \o "." \o FarCol(k - 1)

\* <anchor> IN (SELECT Ak.<returned> FROM <base table>_assoc AS Ak WHERE
SubSelect(k) ==
    <<AnchorCol(k), " IN (SELECT ", Ak(k), ".", ReturnedCol(k), " FROM ", Inline(basetable),
      "_assoc AS ", Ak(k), " WHERE ">>

\* The predicate given for level k: the k-th of the list when there is more
\* than one level, the predicate argument itself when there is one
PredicateOf(k) ==
    IF Truthy(WhereArgs[3]) /\ Levels > 1 THEN Index(WhereArgs[3], k) ELSE WhereArgs[3]

\* The fragment tests the predicate column of level k with the operator text
TestsPredicate(k, test) ==
    \E i \in 1..(Len(where) - 2) :
        where[i] = " AND " /\ where[i + 1] = Ak(k) /\ where[i + 2] = test

\* The fragment constrains the far column of level k by the target, the
\* target type or the target filter
CarriesLeaf(k) ==
    \E i \in 1..(Len(where) - 3) :
        /\ where[i] = Ak(k) /\ where[i + 1] = "." /\ where[i + 2] = FarCol(k)
        /\ where[i + 3] \in {"=", " IN (", "t=", "t IN (", " IN (SELECT id from "}

\* C21 (N-degree nesting): for a direction string of length n over {S, O} the
\* associated-with fragment consists of exactly n nested sub-selects with the
\* aliases A0..A(n-1); level 0 is anchored on the id column and level k > 0 on
\* the far column of level k-1; a level of direction S returns the subject
\* column and constrains the object column, O the reverse; only the innermost
\* level carries the target, target-type or target-filter condition; and
\* level k is AND-ed with a test of its predicate column exactly when a
\* predicate was given for it, an equality for a scalar and IN for a list.
C21_NDegreeNesting ==
    Nested =>
        /\ Len(where) >= 10 * Levels
        /\ Cardinality({i \in DOMAIN where : where[i] = "_assoc AS "}) = Levels
        /\ where[Len(where)] = ")"
        /\ \A k \in 0..(Levels - 1) :
            /\ SubSeq(where, 10 * k + 1, 10 * k + 10) = SubSelect(k)
            /\ CarriesLeaf(k) <=> (k = Levels - 1)
            /\ TestsPredicate(k, ".p=") <=> (Truthy(PredicateOf(k)) /\ ~IsList(PredicateOf(k)))
            /\ TestsPredicate(k, ".p IN (") <=> (Truthy(PredicateOf(k)) /\ IsList(PredicateOf(k)))

\* Two levels, S then O, a predicate for each, a target type with a filter
C21_Witness ==
    /\ Nested
    /\ WhereArgs = <<NoneV, C_b, ListV(<<C_x, RefP>>), Str(<<"S", "O">>), Expr(OP_EQ, <<S_name, C_a>>)>>
    /\ Render(where) = "id IN (SELECT A0.s FROM res_assoc AS A0 WHERE A0.o IN (SELECT A1.o FROM res_assoc AS A1 WHERE A1.st=%(v1)s AND A1.s IN (SELECT id from res AS ART WHERE ART.name=%(v2)s) AND A1.p=%(v3)s) AND A0.p=%(v4)s)"
    /\ values = Binding(<<C_b, C_a, C_x, C_x>>)

-----------------------------------------------------------------------------
(* The predicate list of the associated-with branch                        *)

\* The predicate argument of the associated-with is a list
PredicateList == IsAssociated /\ IsList(WhereArgs[3])
ListLength == PyLen(WhereArgs[3])

\* Where the fragment tests the predicate column of level k (0: nowhere)
TestAt(k) ==
    IF TestsPredicate(k, ".p=") \/ TestsPredicate(k, ".p IN (")
    THEN CHOOSE i \in 1..(Len(where) - 2) :
             where[i] = " AND " /\ where[i + 1] = Ak(k) /\ where[i + 2] \in {".p=", ".p IN ("}
    ELSE 0

\* The values the predicate column of level k is tested against
TestedValues(k) ==
    IF TestsPredicate(k, ".p=") THEN {BoundTo(where[TestAt(k) + 3], values)}
    ELSE IF TestsPredicate(k, ".p IN (") THEN ListedValues(where, TestAt(k) + 3, values)
    ELSE {}

\* Level k tests its predicate column against the k-th predicate of the list
UsesOwnPredicate(k) ==
    Truthy(Index(WhereArgs[3], k)) =>
        TestsPredicate(k, ".p=") /\ TestedValues(k) = {Resolved(Index(WhereArgs[3], k))}

\* The one level is a single membership test over the whole list
TestsWholeList ==
    /\ TestsPredicate(0, ".p IN (")
    /\ where[TestAt(0) + 2 + 2 * ListLength] = ")"
    /\ TestedValues(0) = {Resolved(WhereArgs[3].v[i]) : i \in 1..ListLength}

\* C22 as stated: the length check applies to a predicate list of any length.
C22_AsStated ==
    /\ (PredicateList /\ Levels > 1 /\ ListLength # Levels) => Failed("BadRequest")
    /\ (PredicateList /\ Nested /\ Levels > 1 /\ ListLength = Levels)
           => \A k \in 0..(Levels - 1) : UsesOwnPredicate(k)
    /\ (PredicateList /\ Nested /\ Levels = 1) => TestsWholeList

\* C22 (predicate-list length check): an associated-with with more than one
\* direction level and a non-empty predicate list whose length differs from
\* the length of the direction string fails with InvalidQuery, no placeholder
\* bound; with equal lengths level k tests predicate[k]; with exactly one
\* level a non-empty list of any length compiles to a single membership test
\* over the whole list; an empty predicate list is no predicate at all: the
\* compilation does not fail for it and no level tests its predicate column.
C22_PredicateListLength ==
    /\ (PredicateList /\ ListLength > 0 /\ Levels > 1 /\ ListLength # Levels) => Failed("BadRequest")
    /\ (PredicateList /\ Nested /\ Levels > 1 /\ ListLength = Levels)
           => \A k \in 0..(Levels - 1) : UsesOwnPredicate(k)
    /\ (PredicateList /\ ListLength > 0 /\ Nested /\ Levels = 1) => TestsWholeList
    /\ (PredicateList /\ ListLength = 0 /\ Nested)
           => \A k \in 0..(Levels - 1) : TestAt(k) = 0

\* A list of one predicate for two levels has failed
C22_Witness ==
    /\ PredicateList /\ Failed("BadRequest")
    /\ WhereArgs = <<C_a, NoneV, ListV(<<C_x>>), Str(<<"S", "O">>), NoneV>>

-----------------------------------------------------------------------------
(* The target-type leaf of the associated-with branch                      *)

\* An associated-with with a target type, a target filter and no target has
\* compiled
TargetTypeFiltered ==
    /\ Nested
    /\ ~Truthy(WhereArgs[1]) /\ Truthy(WhereArgs[2]) /\ WhereArgs[5] # NoneV

\* The fragment holds the pieces from some position on
Holds_(pieces) ==
    \E i \in 1..(Len(where) - Len(pieces) + 1) : SubSeq(where, i, i + Len(pieces) - 1) = pieces

\* The far column of the innermost level
Innermost == <<Ak(Levels - 1), ".", FarCol(Levels - 1)>>

\* C23 (target-type leaf with target-filter): whenever an associated-with
\* supplies a target type, as a single value or as a list, together with a
\* target filter and no target, the innermost level holds both the type test
\* on the far column and the nested sub-select
\* <far-column> IN (SELECT id from <base table> AS ART WHERE <target filter>);
\* the target filter is never dropped.
C23_TargetTypeWithFilter ==
    TargetTypeFiltered =>
        /\ Holds_(Innermost \o <<"t=">>) \/ Holds_(Innermost \o <<"t IN (">>)
        /\ Holds_(<<" AND ">> \o Innermost \o <<" IN (SELECT id from ", Inline(basetable), " AS ART WHERE ">>)

-----------------------------------------------------------------------------
(* What the descend statement returns (SpecClosure)                        *)

\* The statement of the compiled descend predicate has been run to its end
Descended == IsDescend /\ exec = "done"
OverAssociations == EndsWith(basetable, S__assoc.v)

\* The association graph as the descend predicate follows it: from the
\* subject to the object of an association, or the reverse
ViaObject == WhereOp = ASSOP_DESCEND_O
EdgeFrom(e) == IF ViaObject THEN e.s ELSE e.o
EdgeTo(e) == IF ViaObject THEN e.o ELSE e.s
TypeOfTarget(e) == IF ViaObject THEN e.ot ELSE e.st
TargetTypes == IF IsList(WhereArgs[2]) THEN WhereArgs[2].v ELSE <<WhereArgs[2]>>
MaxDepth == WhereArgs[4].v

\* The association passes the predicate filter and the node it leads to the
\* target-type filter
Admitted(e) ==
    /\ Truthy(WhereArgs[3]) => \E i \in DOMAIN DescendPredicates : e.p = Resolved(DescendPredicates[i])
    /\ Truthy(WhereArgs[2]) => \E i \in DOMAIN TargetTypes : TypeOfTarget(e) = Resolved(TargetTypes[i])

\* The nodes a path of 1..n admitted associations leads to from the anchor
OneMore(nodes) ==
    {EdgeTo(e) : e \in {a \in assoc : Admitted(a) /\ (EdgeFrom(a) = Resolved(WhereArgs[1]) \/ EdgeFrom(a) \in nodes)}}
RECURSIVE Within(_)
Within(n) == IF n = 0 THEN {} ELSE OneMore(Within(n - 1))
Reachable == Within(IF MaxDepth > 0 THEN MaxDepth ELSE Cardinality(assoc))

\* C24 (descendant closure result): the compiled descendant-of query, base
\* table not the association table, run over any finite association graph
\* returns exactly the node ids reachable from the anchor by a path of at
\* least one edge in the chosen direction and, when max depth d > 0, of at most
\* d edges, every edge of the path passing the predicate filter and every node
\* after the anchor the target-type filter; max depth 0 imposes no depth bound
\* and binds no depth placeholder.
C24_ClosureResult ==
    (Descended /\ ~OverAssociations) =>
        /\ OuterSelect(where, ch_res) = Reachable
        /\ MaxDepth = 0 =>
            /\ IndexOf(where, " AND ch.depth<") = 0
            /\ valcnt = 1 + (IF Truthy(WhereArgs[3]) THEN Len(DescendPredicates) ELSE 0)
                          + (IF Truthy(WhereArgs[2]) THEN Len(TargetTypes) ELSE 0)

\* From a over a -> b -> x and a -> a, target type a, no depth bound: b is not
\* of the type, and x is behind b
C24_Witness ==
    /\ Descended /\ ~OverAssociations /\ ViaObject
    /\ WhereArgs = <<C_a, C_a, NoneV, IntV(0)>>
    /\ {e.id : e \in assoc} = {"e1", "e3", "e5"}
    /\ OuterSelect(where, ch_res) = {C_a}

\* The association a row of ch_res was reached by first, and last
FirstTraversed(r) == r.path[Len(r.path)]
LastTraversed(r) == r.path[1]

\* C26 as stated: over the association table the outer query returns the
\* first association traversed on the path of each row, the path growing by
\* appending.
C26_AsStated ==
    Descended =>
        /\ OverAssociations => OuterSelect(where, ch_res) = {FirstTraversed(r) : r \in ch_res}
        /\ ~OverAssociations => OuterSelect(where, ch_res) = {r.chid : r \in ch_res}

\* C26 (descendant closure over the association table): when the base table
\* is itself the association table, the outer query returns for each row of
\* the recursive result the id of the association traversed last on the path
\* of the row, the one that leads to the node of the row: the path array is
\* built by putting each newly traversed association id in front of the path
\* so far, and its first element is selected; otherwise the outer query
\* returns the node id.
C26_ClosureOverAssociations ==
    Descended =>
        /\ \A r \in ch_res : \E e \in assoc : e.id = LastTraversed(r) /\ EdgeTo(e) = r.chid
        /\ \A r \in ch_res : Len(r.path) > 1 => \E ch \in ch_res : r.path = <<LastTraversed(r)>> \o ch.path
        /\ OverAssociations => OuterSelect(where, ch_res) = {LastTraversed(r) : r \in ch_res}
        /\ ~OverAssociations => OuterSelect(where, ch_res) = {r.chid : r \in ch_res}

\* Over a -> b -> x from a: both associations are returned
C26_Witness ==
    /\ Descended /\ OverAssociations /\ ViaObject
    /\ WhereArgs = <<C_a, NoneV, NoneV, IntV(0)>>
    /\ {e.id : e \in assoc} = {"e1", "e5"}
    /\ ch_res = {[chid |-> C_b, path |-> <<"e1">>, depth |-> 1, cycle |-> FALSE],
                 [chid |-> C_x, path |-> <<"e5", "e1">>, depth |-> 2, cycle |-> FALSE]}
    /\ OuterSelect(where, ch_res) = {"e1", "e5"}

-----------------------------------------------------------------------------
(* The ORDER BY fragment                                                   *)

\* The order_by of the QuerySpec is compiled: the format is not the raw one
Ordering == Built /\ query.query_args.format # "sql"
Pairs == query.order_by.v

\* The direction equals "desc" ignoring case
IsDesc(colsort) ==
    /\ Len(colsort) = 4
    /\ colsort[1] \in {"d", "D"} /\ colsort[2] \in {"e", "E"}
    /\ colsort[3] \in {"s", "S"} /\ colsort[4] \in {"c", "C"}

\* The first n pairs, each as <column> DESC or <column> ASC, joined by commas
RECURSIVE OrderText(_)
OrderText(n) ==
    IF n = 0 THEN ""
    ELSE OrderText(n - 1) \o (IF n > 1 THEN "," ELSE "")
         \o Verbatim(Pairs[n][1]) \o (IF IsDesc(Pairs[n][2].v) THEN " DESC" ELSE " ASC")

\* C25 (ORDER BY compilation): each (column, direction) pair compiles to
\* <column> DESC if and only if the direction string equals "desc" ignoring
\* case, and to <column> ASC for every other direction string; the pairs are
\* joined by commas in input order, and an empty order_by yields no ORDER BY
\* clause.
C25_OrderByCompilation ==
    Ordering =>
        /\ Render(order_by) = OrderText(Len(Pairs))
        /\ Assembled => (Emitted(" ORDER BY ") <=> Pairs # <<>>)

\* Three pairs: DESC in capitals, a longer word, an empty direction
C25_Witness ==
    /\ Ordering /\ Assembled
    /\ Pairs = <<<<S_name, C_DESC>>, <<S_type_, C_descending>>, <<S_id, S_empty>>>>
    /\ Render(order_by) = "name DESC,type_ ASC,id ASC"
    /\ Emitted(" ORDER BY ")

-----------------------------------------------------------------------------
(* The table aliases of the complex format                                 *)

\* A complex-format QuerySpec has compiled; its from list
ComplexBuilt == Built /\ query.query_args.format = "complex"
FromList == IF "from" \in DOMAIN query /\ Truthy(query["from"]) THEN query["from"].v ELSE <<>>

\* The text t reads " as ", in any case, from position i on
ReadsAs(t, i) == t[i] = " " /\ t[i + 1] \in {"a", "A"} /\ t[i + 2] \in {"s", "S"} /\ t[i + 3] = " "
HasInlineAlias(t) == \E i \in 1..(Len(t) - 3) : ReadsAs(t, i)

\* The alias recorded for the i-th table of the from list is the one the
\* entry names inline, when it names one
RecordedIsInline(i) ==
    HasInlineAlias(FromList[i].v) =>
        \E at \in 1..(Len(FromList[i].v) - 3) :
            /\ ReadsAs(FromList[i].v, at)
            /\ table_aliases[i + 1] = Inline(SubSeq(FromList[i].v, at + 4, Len(FromList[i].v)))

\* The FROM clause after the base table: each table of the from list under
\* its recorded alias
RECURSIVE FromText(_)
FromText(n) ==
    IF n = 0 THEN ""
    ELSE FromText(n - 1) \o "," \o Verbatim(FromList[n])
         \o (IF HasInlineAlias(FromList[n].v) THEN "" ELSE " as " \o table_aliases[n + 1])

\* C27 (table alias set in complex format): for every from list, entries with
\* and without an inline alias, the recorded alias sequence starts with base,
\* has one alias per additional table in input order, holds pairwise distinct
\* aliases, and each recorded alias is exactly the alias under which that
\* table appears in the emitted FROM clause.
C27_TableAliases ==
    ComplexBuilt =>
        /\ Len(table_aliases) = 1 + Len(FromList)
        /\ table_aliases[1] = "base"
        /\ \A i, j \in DOMAIN table_aliases : i # j => table_aliases[i] # table_aliases[j]
        /\ \A i \in DOMAIN FromList : RecordedIsInline(i)
        /\ Render(from_tables) = Inline(basetable) \o " AS base" \o FromText(Len(FromList))

-----------------------------------------------------------------------------
(* The table prefix of a target filter                                     *)

\* An associated-with has compiled its target filter, with the table prefix
\* "ART."; where the fragment of the filter starts
PrefixedFilter == IsAssociated /\ Built /\ IndexOf(where, " AS ART WHERE ") > 0
FilterStart == IndexOf(where, " AS ART WHERE ") + 1

\* The pieces that refer to a column of the context table: a physical column,
\* the document column, the id anchor of a traversal
RECURSIVE Attributes(_)
Attributes(e) ==
    IF e.op \in {EXP_AND, EXP_OR, EXP_NOT} THEN UNION {Attributes(e.args[i]) : i \in 1..Len(e.args)}
    ELSE IF TagStartsWith(e.op, OP_PREFIX) \/ e.op \in {XOP_IN, XOP_BETWEEN} THEN {Verbatim(e.args[1])}
    ELSE {}
ContextColumns ==
    (Attributes(WhereArgs[5]) \cap {Verbatim(col) : col \in Whitelist})
    \cup {"doc,", "doc)", "doc) LIKE ", "doc) ILIKE ", "doc) IS NOT null", "id", "id IN ("}

\* C28 (table prefix threading): for every predicate tag, when the predicate
\* compiler is called with a non-empty table_prefix, every reference in the
\* returned fragment to a column of the context table (physical column,
\* document column, and the id anchor column of associated-with and
\* descendant-of predicates) is qualified with that prefix, the prefix being
\* passed unchanged to every child of AND, OR and NOT.
C28_PrefixThreading ==
    PrefixedFilter =>
        \A i \in FilterStart..Len(where) : where[i] \in ContextColumns => where[i - 1] = "ART."

-----------------------------------------------------------------------------
(* The alias of the base table                                             *)

\* C29 (base alias consistency): for every compiler instance, in every query
\* format (plain, complex, raw), the alias returned by get_base_alias is a
\* member of the table alias sequence of the instance and is the name under
\* which the base table stands in the FROM clause of the statement get_query
\* returns.
C29_BaseAliasConsistency ==
    Built =>
        /\ \E i \in DOMAIN table_aliases : table_aliases[i] = get_base_alias
        /\ Len(from_tables) >= 2
        /\ from_tables[1] = Inline(basetable) /\ from_tables[2] = " AS " \o get_base_alias
        /\ Assembled => From(sql_out, " FROM ", 3) = <<" FROM ", Inline(basetable), " AS " \o get_base_alias>>

-----------------------------------------------------------------------------
(* The binding against the statement                                       *)

\* get_query and get_values have returned for a plain- or complex-format
\* QuerySpec
Fetched == Assembled /\ values_out = values /\ query.query_args.format # "sql"

\* The placeholder names the statement refers to
Referenced ==
    {ValName(n) : n \in {m \in 1..Len(sql_out) : \E i \in DOMAIN sql_out : sql_out[i] = Placeholder(ValName(m))}}

\* The values a compiled predicate binds without referring to them: an
\* alternate-id predicate binds its namespace and its identifier, and refers
\* to those of the two that are given
RECURSIVE Unreferenced(_)
RECURSIVE UnreferencedIn(_)
UnreferencedIn(exprs) ==
    IF exprs = <<>> THEN 0 ELSE Unreferenced(Head(exprs)) + UnreferencedIn(Tail(exprs))
Unreferenced(e) ==
    IF e = NoneV THEN 0
    ELSE IF e.op \in {EXP_AND, EXP_OR, EXP_NOT} THEN UnreferencedIn(e.args)
    ELSE IF e.op = XOP_ALTID
    THEN (IF Truthy(e.args[1]) THEN 0 ELSE 1) + (IF Truthy(e.args[2]) THEN 0 ELSE 1)
    ELSE IF e.op = ASSOP_ASSOCIATED
              /\ ~Truthy(e.args[1]) /\ ~(Truthy(e.args[2]) /\ IsList(e.args[2]))
    THEN Unreferenced(e.args[5])
    ELSE 0

\* C30 as stated: the statement refers to exactly the names that are bound.
C30_AsStated == Fetched => Referenced = DOMAIN values_out

\* C30 (binding and SQL agree): for every successfully compiled plain- or
\* complex-format QuerySpec every placeholder name the SQL string of
\* get_query refers to is a key of the mapping get_values returns; the two
\* sets are equal but for the alternate-id predicates: each binds its
\* namespace and its identifier both, and the fragment refers to those of the
\* two that are given, so that each one absent leaves one bound value that no
\* placeholder refers to.
C30_BindingAndSqlAgree ==
    Fetched =>
        /\ Referenced \subseteq DOMAIN values_out
        /\ Cardinality(DOMAIN values_out \ Referenced) = Unreferenced(query.where)

\* An alternate-id predicate with an identifier and no namespace
C30_Witness ==
    /\ Fetched /\ HasWhere
    /\ query.where = Expr(XOP_ALTID, <<NoneV, C_b>>)
    /\ Render(where) = "%(v2)s <@ json_altids_id(doc)"
    /\ values_out = Binding(<<ListV(<<NoneV>>), ListV(<<C_b>>)>>)
    /\ Referenced = {"v2"}

====
